---- MODULE Spec2Model ----
(***************************************************************************)
(* A model of the IRIS voice pipeline: the streaming text chunker          *)
(* (web-app/src/api/text-chunker.ts), the producer/consumer chat() of the  *)
(* agents (agent-core/src/agent.ts, local-agent.ts) and the browser voice  *)
(* client with its chat view (web-app/src/api/voice.ts, Chat.tsx).         *)
(*                                                                         *)
(* Text is a sequence of one-character strings.                            *)
(***************************************************************************)
EXTENDS Integers, Sequences, FiniteSets, TLC

VARIABLES
    \* ---- TextChunker (text-chunker.ts) ----
    buffer,       \* TextChunker.buffer
    options,      \* TextChunker.options: [mode, minChunkSize, maxChunkSize]
    input,        \* concatenation of every token passed to add() so far
    chunks,       \* every chunk returned so far: [text, kind], kind in boundary/forced/flush
    phase,        \* "off" | "streaming" | "flushed"
    scanned,      \* the buffer as extractChunks() found it on the last add()
    deferrals,    \* number of candidates put back by the minimum-size rule
    adds,         \* number of add() calls so far
    pos,          \* fixed-text streams: number of characters of the text added so far
    \* ---- IrisAgent.chat / LocalAgent.chat (agent.ts, local-agent.ts) ----
    agentKind,    \* "iris" | "local" | "none": which agent serves the chat requests
    chatTurn,     \* turn whose chat() call is running, 0 when none
    ppc,          \* position of the producer: idle/ack/prompt/stream/rejected, then how it
                  \* left: ended (stream ended) / threw (stream threw) / failed (before the stream)
    cpc,          \* position of the generator: idle/waiting/woken/yielded/running/returned/threw
    queue,        \* chunkQueue
    pdone,        \* state.done
    resolveWaiting, \* state.resolveWaiting is set
    pushed,       \* every chunk the producer submitted in this call, in order
    yielded,      \* every chunk the generator yielded in this call, in order
    msgs,         \* messages received from the model stream in this call
    assistantLog, \* assistant messages added to the conversation history in this call:
                  \* [text, at], at = number of chunks submitted before it
    \* ---- agent API: request and response streams ----
    reqQ,         \* chat requests not yet served (turn ids)
    sse,          \* per turn: chunks written to the response, not yet read
    sseOpen,      \* per turn: the response body has not ended
    \* ---- Chat view (Chat.tsx) ----
    turn,         \* number of handleSend() calls that started streaming
    isStreaming,  \* React state isStreaming
    hs,           \* per turn: [active, voice, buf]: a running handleSend and its chunker buffer
    \* ---- VoiceClient (voice.ts) ----
    vstate,       \* VoiceClient.state
    ws,           \* "none" | "open" | "closed"
    recordings,   \* startRecording() calls so far
    micPending,   \* startRecording() calls awaiting getUserMedia
    capturing,    \* captureStream is set
    playbackContext, \* playbackContext is set
    scheduled,    \* TTS frames scheduled in the playback context: [turn, origin, late]
    pendingSynthesisText, \* pendingSynthesisText is set
    synthLog,     \* every synthesize() call: [turn, origin]
    interrupted,  \* turns that were in flight when the user interrupted
    \* ---- network and voice server ----
    c2s,          \* client-to-server frames in flight
    s2c,          \* server-to-client frames in flight
    sstate,       \* session state of the voice server
    ttsQ,         \* outbound TTS queue of the voice server
    wireLog,      \* every TTS_AUDIO frame put on the wire: [turn, origin, late]
    \* ---- fast layer (fast-layer.ts) and the acknowledgment phase of chat() ----
    fastCaller,   \* "iris" | "local": the agent whose chat() runs the acknowledgment phase
    fastLayer,    \* "ollama" | "haiku": the fast-layer module the agent is built with
    userMessage,  \* the message passed to chat()
    voiceStyle,   \* config.voiceStyle
    ollamaAvailable, \* module variable ollamaAvailable: "null" | "true" | "false"
    fpc,          \* position in the acknowledgment phase: off/gate/resolve/probe/calling/main
    acknowledgment, \* what getAcknowledgment() returned: Null or [text, intent]
    modelCalls,   \* small-model requests issued in this turn
    callResult,   \* how the small-model request ended: [kind: none/ok/failed, text]
    ackWanted,    \* the value needsAcknowledgment() returned in this turn
    fastTurns,    \* chat() calls so far
    \* ---- tool calls (mcp-server.ts, mcp-staratlas-server) ----
    toolLog,      \* every tool call so far: [server, tool, outcome, result]
    \* ---- audio playback of the VoiceClient (voice.ts playPcmBytes) ----
    nextPlayTime, \* VoiceClient.nextPlayTime, in clock ticks of the playback context
    sampleRate,   \* playbackContext.sampleRate, 0 while there is no playback context
    contextStart, \* wall-clock tick at which the playback context was created
    wallClock,    \* wall clock: playbackContext.currentTime = wallClock - contextStart
    playLog,      \* every source.start() in arrival order: [kind |-> "chunk", arrived, at,
                  \* until, rate] in wall-clock ticks, and a [kind |-> "stop"] per stopAudio()
    \* ---- memory engine of one user and the memory tools (mcp-server.ts) ----
    graph,        \* the user's entities in creation order: [name, entityType, observations, userEdited]
    summary,      \* the stored summary: [present, version]
    userEditSince, \* a user-edited mutation was recorded since summary.generated_at
    mutationsSince, \* entity mutations and turns recorded since summary.generated_at
    editRequested, \* the tools that changed the graph with isUserEdit = true since the
                  \* summary was generated
    memResult,    \* what the last tool call or prompt build returned
    \* ---- voice style of the chat view (Chat.tsx) ----
    chatVoiceStyle, \* React state voiceStyle of Chat
    availableStyles, \* React state availableStyles: the options loaded from /api/styles
    firstRender,  \* what the handleSend of the first render closed over:
                  \* [voiceStyle, availableStyles]
    styleTurn,    \* the voice-mode handleSend that is running: [active, sent, args]
    styleTurns,   \* voice-mode turns started so far
    ttsRequests,  \* every synthesize() call: [kind, sent, selected, exaggeration, speechRate]
    \* ---- magic-link verification (auth-service verify-magic-link.ts) ----
    tokensTable,  \* TOKENS_TABLE: token -> [used, expired]
    usersTable,   \* USERS_TABLE: the set of items [userId, email, logins]
    handler,      \* the verifyMagicLink invocations: [pc, token, userId, status]
    issued,       \* how many ids nanoid() has returned
    \* ---- LocalAgent's own history (local-agent.ts) ----
    conversationHistory, \* LocalAgent.conversationHistory: the roles of its messages
    lpc,          \* position of the chat() generator body
    localResponse, \* responseText of the running call is not empty
    chunksRead,   \* chunks of the Ollama stream read by the running call
    localCalls,   \* chat() calls made so far
    \* ---- stream parsers (ollamaChatStream, streamChat) ----
    parserKind,   \* "ndjson" (ollamaChatStream) or "sse" (streamChat)
    body,         \* bytes of the response body not yet returned by reader.read()
    received,     \* bytes returned by reader.read() so far
    splits,       \* [line, char]: a read has ended inside a line, inside a character
    parser,       \* [held, buffer, events]: the TextDecoder's pending bytes, the
                  \* function's buffer, the values yielded
    parserDone    \* the generator has finished

chunkerVars == <<buffer, options, input, chunks, phase, scanned, deferrals, adds, pos>>

agentVars == <<agentKind, chatTurn, ppc, cpc, queue, pdone, resolveWaiting, pushed, yielded, msgs,
               assistantLog>>

apiVars == <<reqQ, sse, sseOpen>>

viewVars == <<turn, isStreaming, hs>>

clientVars == <<vstate, ws, recordings, micPending, capturing, playbackContext, scheduled,
                pendingSynthesisText, synthLog, interrupted>>

serverVars == <<c2s, s2c, sstate, ttsQ, wireLog>>

pipelineVars == <<agentVars, apiVars, viewVars, clientVars, serverVars>>

fastVars == <<fastCaller, fastLayer, userMessage, voiceStyle, ollamaAvailable, fpc,
              acknowledgment, modelCalls, callResult, ackWanted, fastTurns>>

\* components explored on their own
toolVars == <<toolLog>>

playVars == <<nextPlayTime, sampleRate, contextStart, wallClock, playLog>>

memVars == <<graph, summary, userEditSince, mutationsSince, editRequested, memResult>>

styleVars == <<chatVoiceStyle, availableStyles, firstRender, styleTurn, styleTurns, ttsRequests>>

authVars == <<tokensTable, usersTable, handler, issued>>

historyVars == <<conversationHistory, lpc, localResponse, chunksRead, localCalls>>

parserVars == <<parserKind, body, received, splits, parser, parserDone>>

serviceVars == <<authVars, historyVars, parserVars>>

componentVars == <<fastVars, toolVars, playVars, memVars, styleVars, serviceVars>>

vars == <<chunkerVars, pipelineVars, componentVars>>

-----------------------------------------------------------------------------
(* Bounds of the explored instances *)

MaxTokens == 5        \* tokens per stream
SmallMin == 3         \* minChunkSize of the explored chunkers
SmallMax == 6         \* maxChunkSize of the explored chunkers
MaxTurns == 2         \* turns per session
MaxMsgs == 1          \* messages of the model stream per turn
MaxRecordings == 2    \* startRecording() calls per session
MaxTranscripts == 1   \* utterances the recognizer turns into text per session
MaxCalls == 2         \* tool calls per session
ForceMax == 56        \* maxChunkSize of the chunkers explored for forced splits
LongLen == 20         \* length of the unbroken word in those streams

(* Program constants *)

DefaultMinChunkSize == 10
DefaultMaxChunkSize == 500
ForceSearchWindow == 50

-----------------------------------------------------------------------------
(* Strings *)

MinOf(S) == CHOOSE x \in S : \A y \in S : x <= y
MaxOf(S) == CHOOSE x \in S : \A y \in S : x >= y

\* JavaScript \s, restricted to the whitespace the streams contain
IsSpace(c) == c \in {" ", "\n", "\t"}

SentencePunct == {".", "!", "?"}

\* String.prototype.slice(from, to) for 0 <= from, 0 <= to (0-based, to exclusive)
Slice(s, from, to) ==
    LET hi == IF to > Len(s) THEN Len(s) ELSE to
    IN  IF from >= hi THEN <<>> ELSE SubSeq(s, from + 1, hi)

SliceFrom(s, from) == Slice(s, from, Len(s))

TrimStart(s) ==
    LET keep == {i \in 1..Len(s) : ~IsSpace(s[i])}
    IN  IF keep = {} THEN <<>> ELSE SubSeq(s, MinOf(keep), Len(s))

TrimEnd(s) ==
    LET keep == {i \in 1..Len(s) : ~IsSpace(s[i])}
    IN  IF keep = {} THEN <<>> ELSE SubSeq(s, 1, MaxOf(keep))

Trim(s) == TrimEnd(TrimStart(s))

\* String.prototype.indexOf(pat): 0-based index of the first occurrence, or -1
IndexOf(s, pat) ==
    LET hits == {i \in 0..(Len(s) - Len(pat)) : Slice(s, i, i + Len(pat)) = pat}
    IN  IF hits = {} THEN -1 ELSE MinOf(hits)

\* String.prototype.lastIndexOf(pat)
LastIndexOf(s, pat) ==
    LET hits == {i \in 0..(Len(s) - Len(pat)) : Slice(s, i, i + Len(pat)) = pat}
    IN  IF hits = {} THEN -1 ELSE MaxOf(hits)

\* String.prototype.toLowerCase, on the letters the streams contain
ToLowerChar(c) ==
    CASE c = "D" -> "d"
      [] c = "H" -> "h"
      [] c = "N" -> "n"
      [] c = "S" -> "s"
      [] c = "T" -> "t"
      [] OTHER -> c

ToLowerCase(s) == [i \in 1..Len(s) |-> ToLowerChar(s[i])]

-----------------------------------------------------------------------------
(* TextChunker *)

ABBREVIATIONS ==
    { <<"m","r">>, <<"m","r","s">>, <<"m","s">>, <<"d","r">>,
      <<"p","r","o","f">>, <<"s","r">>, <<"j","r">>, <<"v","s">>,
      <<"e","t","c">>, <<"i","n","c">>, <<"l","t","d">>, <<"c","o">>,
      <<"c","o","r","p">>, <<"d","e","p","t">>, <<"e","s","t">>,
      <<"a","p","p","r","o","x">>, <<"g","o","v","t">>, <<"v","o","l">>,
      <<"n","o">>, <<"f","i","g">>, <<"e",".","g">>, <<"i",".","e">>,
      <<"v","i","z">>, <<"c","f">>, <<"a","l">> }

DEFAULT_OPTIONS ==
    [mode |-> "sentence",
     minChunkSize |-> DefaultMinChunkSize,
     maxChunkSize |-> DefaultMaxChunkSize]

\* words[words.length - 1] of text.trim().split(/\s+/)
LastWord(text) ==
    LET t == Trim(text)
        sp == {i \in 1..Len(t) : IsSpace(t[i])}
    IN  IF sp = {} THEN t ELSE SubSeq(t, MaxOf(sp) + 1, Len(t))

\* lastWord.replace(/[.!?]+$/, "")
StripTrailingPunct(w) ==
    LET keep == {i \in 1..Len(w) : w[i] \notin SentencePunct}
    IN  IF keep = {} THEN <<>> ELSE SubSeq(w, 1, MaxOf(keep))

\* A chunker that knows no abbreviation.
isAbbreviationNone(text) == FALSE

isAbbreviation(text) ==
    StripTrailingPunct(ToLowerCase(LastWord(text))) \in ABBREVIATIONS

\* Result of an extract step: found = FALSE models a null return.
NoChunk(buf) == [found |-> FALSE, chunk |-> <<>>, buffer |-> buf]

extractSentence(buf) ==
    LET ends == {i \in 1..(Len(buf) - 1) :
                    /\ buf[i] \in SentencePunct
                    /\ IsSpace(buf[i + 1])
                    /\ ~isAbbreviation(SubSeq(buf, 1, i))}
    IN  IF ends = {} THEN NoChunk(buf)
        ELSE LET endPos == MinOf(ends)
             IN  [found |-> TRUE,
                  chunk |-> Trim(Slice(buf, 0, endPos)),
                  buffer |-> TrimStart(SliceFrom(buf, endPos))]

extractParagraph(buf) ==
    LET paragraphBreak == IndexOf(buf, <<"\n", "\n">>)
        singleNewline == IndexOf(buf, <<"\n">>)
        afterNewline == SliceFrom(buf, singleNewline + 1)
    IN  IF paragraphBreak # -1
        THEN [found |-> TRUE,
              chunk |-> Trim(Slice(buf, 0, paragraphBreak)),
              buffer |-> TrimStart(SliceFrom(buf, paragraphBreak + 2))]
        ELSE IF /\ singleNewline # -1
                /\ \/ (Len(afterNewline) >= 1 /\ afterNewline[1] = "\n")
                   \/ (/\ Len(afterNewline) >= 2
                       /\ IsSpace(afterNewline[1])
                       /\ IsSpace(afterNewline[2]))
        THEN [found |-> TRUE,
              chunk |-> Trim(Slice(buf, 0, singleNewline)),
              buffer |-> TrimStart(afterNewline)]
        ELSE NoChunk(buf)

\* A forceExtract that never looks for a break: always a hard split.
forceExtractHard(buf, opts) ==
    [found |-> TRUE,
     chunk |-> Trim(Slice(buf, 0, opts.maxChunkSize)),
     buffer |-> SliceFrom(buf, opts.maxChunkSize)]

forceExtract(buf, opts) ==
    LET searchStart == IF opts.maxChunkSize - ForceSearchWindow > 0
                       THEN opts.maxChunkSize - ForceSearchWindow ELSE 0
        searchEnd == opts.maxChunkSize
        searchRegion == Slice(buf, searchStart, searchEnd)
        sentenceBreak == LastIndexOf(searchRegion, <<".", " ">>)
        commaBreak == LastIndexOf(searchRegion, <<",", " ">>)
        spaceBreak == LastIndexOf(searchRegion, <<" ">>)
        SplitAt(breakPoint, trimRest) ==
            [found |-> TRUE,
             chunk |-> Trim(Slice(buf, 0, breakPoint)),
             buffer |-> IF trimRest THEN TrimStart(SliceFrom(buf, breakPoint))
                        ELSE SliceFrom(buf, breakPoint)]
    IN  IF Len(buf) = 0 THEN NoChunk(buf)
        ELSE IF sentenceBreak # -1 THEN SplitAt(searchStart + sentenceBreak + 1, TRUE)
        ELSE IF commaBreak # -1 THEN SplitAt(searchStart + commaBreak + 1, TRUE)
        ELSE IF spaceBreak # -1 THEN SplitAt(searchStart + spaceBreak, TRUE)
        ELSE SplitAt(opts.maxChunkSize, FALSE)

extractOne(buf, opts) ==
    IF opts.mode = "sentence" THEN extractSentence(buf) ELSE extractParagraph(buf)

\* A chunker without the minimum-size test: every candidate is yielded.
MeetsMinimumAlways(chunk, opts) == TRUE

\* if (chunk.length >= minChunkSize) push; else put it back and stop
MeetsMinimum(chunk, opts) == Len(chunk) >= opts.minChunkSize

\* The while (true) loop of extractChunks
RECURSIVE extractLoop(_, _, _)
extractLoop(buf, opts, acc) ==
    LET r == extractOne(buf, opts)
    IN  IF ~r.found \/ r.chunk = <<>>
        THEN [chunks |-> acc, buffer |-> r.buffer, deferred |-> 0]
        ELSE IF MeetsMinimum(r.chunk, opts)
        THEN extractLoop(r.buffer, opts,
                         Append(acc, [text |-> r.chunk, kind |-> "boundary"]))
        ELSE [chunks |-> acc, buffer |-> r.chunk \o r.buffer, deferred |-> 1]

extractChunks(buf, opts) ==
    LET l == extractLoop(buf, opts, <<>>)
    IN  IF Len(l.buffer) > opts.maxChunkSize
        THEN LET f == forceExtract(l.buffer, opts)
             IN  [chunks |-> IF f.found /\ f.chunk # <<>>
                             THEN Append(l.chunks, [text |-> f.chunk, kind |-> "forced"])
                             ELSE l.chunks,
                  buffer |-> f.buffer,
                  deferred |-> l.deferred]
        ELSE l

\* flush(): the trimmed remainder, or null when it is shorter than the minimum
flushResult(buf, opts) ==
    LET remaining == Trim(buf)
    IN  IF Len(remaining) >= opts.minChunkSize
        THEN <<[text |-> remaining, kind |-> "flush"]>>
        ELSE <<>>

-----------------------------------------------------------------------------
(* Chunker streams: tokens drawn from a small vocabulary *)

Vocabulary ==
    { <<"n","o">>, <<"a","b","c">>, <<".">>, <<" ">>, <<"!"," ">>, <<","," ">>, <<"\n">> }

SmallOptions ==
    { [mode |-> m, minChunkSize |-> SmallMin, maxChunkSize |-> SmallMax] :
        m \in {"sentence", "paragraph"} }

Turns == 1..MaxTurns

\* The agents, the chat view and the voice client before anything is constructed
PipelineAtRest ==
    /\ agentKind = "none"
    /\ chatTurn = 0
    /\ ppc = "idle"
    /\ cpc = "idle"
    /\ queue = <<>>
    /\ pdone = FALSE
    /\ resolveWaiting = FALSE
    /\ pushed = <<>>
    /\ assistantLog = <<>>
    /\ yielded = <<>>
    /\ msgs = 0
    /\ reqQ = <<>>
    /\ sse = [t \in Turns |-> <<>>]
    /\ sseOpen = [t \in Turns |-> FALSE]
    /\ turn = 0
    /\ isStreaming = FALSE
    /\ hs = [t \in Turns |-> [active |-> FALSE, voice |-> FALSE, buf |-> <<>>]]
    /\ recordings = 0
    /\ micPending = 0
    /\ capturing = FALSE
    /\ playbackContext = FALSE
    /\ scheduled = <<>>
    /\ pendingSynthesisText = FALSE
    /\ synthLog = <<>>
    /\ interrupted = {}
    /\ c2s = <<>>
    /\ s2c = <<>>
    /\ sstate = "CLOSED"
    /\ ttsQ = <<>>
    /\ wireLog = <<>>

\* the pipeline while another component is explored: a client that never
\* connected
PipelineOff ==
    /\ PipelineAtRest
    /\ vstate = "idle"
    /\ ws = "none"

ChunkerOff ==
    /\ buffer = <<>>
    /\ options = DEFAULT_OPTIONS
    /\ input = <<>>
    /\ chunks = <<>>
    /\ phase = "off"
    /\ scanned = <<>>
    /\ deferrals = 0
    /\ adds = 0
    /\ pos = 0

\* the null a fast-layer function returns instead of a QuickAcknowledgment
NoAck == [text |-> <<>>, intent |-> "null"]

\* the fast layer while another component is explored: no chat() call runs
FastOff ==
    /\ fastCaller = "none"
    /\ fastLayer = "none"
    /\ userMessage = <<>>
    /\ voiceStyle = "normal"
    /\ ollamaAvailable = "null"
    /\ fpc = "off"
    /\ acknowledgment = NoAck
    /\ modelCalls = 0
    /\ callResult = [kind |-> "none", text |-> <<>>]
    /\ ackWanted = FALSE
    /\ fastTurns = 0

\* no tool has been called
ToolsOff == toolLog = <<>>

\* no audio has been received: a new VoiceClient has nextPlayTime = 0 and no
\* playback context
PlayOff ==
    /\ nextPlayTime = 0
    /\ sampleRate = 0
    /\ contextStart = 0
    /\ wallClock = 0
    /\ playLog = <<>>

NoSummary == [present |-> FALSE, version |-> 0]

NoResult == [op |-> "none"]

\* the memory engine of a user nothing was stored for
MemoryOff ==
    /\ graph = <<>>
    /\ summary = NoSummary
    /\ userEditSince = FALSE
    /\ mutationsSince = 0
    /\ editRequested = {}
    /\ memResult = NoResult

NoStyleTurn == [active |-> FALSE]

MaxHandlers == 2    \* concurrent verifyMagicLink invocations explored

MaxLocalCalls == 3  \* LocalAgent.chat() calls explored

MaxChunks == 2      \* chunks of one Ollama stream

MaxLines == 2       \* lines of a response body read by a stream parser

\* the chat view while another component is explored: no style was loaded
\* and no voice turn ran
StyleOff ==
    /\ chatVoiceStyle = "normal"
    /\ availableStyles = {}
    /\ firstRender = [voiceStyle |-> "normal", availableStyles |-> {}]
    /\ styleTurn = NoStyleTurn
    /\ styleTurns = 0
    /\ ttsRequests = <<>>

\* the identifiers of the verifyMagicLink invocations
Handlers == 1..MaxHandlers

\* the tokens sendMagicLink has stored, and the address each was issued to
TokenEmail == [t1 |-> "ann", t2 |-> "ann", t3 |-> "bob"]

TokenIds == DOMAIN TokenEmail

NoHandler == [pc |-> "idle", token |-> "", userId |-> 0, status |-> 0]

\* the auth service while another component is explored: no request arrived
AuthOff ==
    /\ tokensTable = [t \in TokenIds |-> [used |-> FALSE, expired |-> FALSE]]
    /\ usersTable = {}
    /\ handler = [r \in 1..MaxHandlers |-> NoHandler]
    /\ issued = 0

\* the LocalAgent's history while another component is explored
HistoryOff ==
    /\ conversationHistory = <<>>
    /\ lpc = "idle"
    /\ localResponse = FALSE
    /\ chunksRead = 0
    /\ localCalls = 0

EmptyParser == [held |-> <<>>, buffer |-> <<>>, events |-> <<>>]

NoSplits == [line |-> FALSE, char |-> FALSE]

\* the parsers while another component is explored: no response is read
ParserOff ==
    /\ parserKind = "none"
    /\ body = <<>>
    /\ received = <<>>
    /\ splits = NoSplits
    /\ parser = EmptyParser
    /\ parserDone = FALSE

ServicesOff == AuthOff /\ HistoryOff /\ ParserOff

ComponentsOff ==
    /\ FastOff
    /\ ToolsOff
    /\ PlayOff
    /\ MemoryOff
    /\ StyleOff
    /\ ServicesOff

\* new TextChunker(options)
ChunkerInit ==
    /\ buffer = <<>>
    /\ options \in SmallOptions
    /\ input = <<>>
    /\ chunks = <<>>
    /\ phase = "streaming"
    /\ scanned = <<>>
    /\ deferrals = 0
    /\ adds = 0
    /\ pos = 0
    /\ PipelineOff
    /\ ComponentsOff

\* add(text)
AddText(text) ==
    LET r == extractChunks(buffer \o text, options)
    IN  /\ buffer' = r.buffer
        /\ chunks' = chunks \o r.chunks
        /\ input' = input \o text
        /\ scanned' = buffer \o text
        /\ deferrals' = deferrals + r.deferred
        /\ adds' = adds + 1
        /\ UNCHANGED <<options, phase>>

Add ==
    /\ phase = "streaming"
    /\ adds < MaxTokens
    /\ \E tok \in Vocabulary : AddText(tok)
    /\ UNCHANGED pos
    /\ UNCHANGED <<pipelineVars, componentVars>>

\* flush()
Flush ==
    /\ phase = "streaming"
    /\ chunks' = chunks \o flushResult(buffer, options)
    /\ buffer' = <<>>
    /\ phase' = "flushed"
    /\ UNCHANGED <<options, input, scanned, deferrals, adds, pos>>
    /\ UNCHANGED <<pipelineVars, componentVars>>

ChunkerNext == Add \/ Flush

SpecChunker == ChunkerInit /\ [][ChunkerNext]_vars

-----------------------------------------------------------------------------
(* Scenario S4: a fixed text, divided into tokens in every possible way *)

S4Text ==
    << "D","r","."," ","S","m","i","t","h"," ","w","e","n","t"," ","t","o"," ",
       "t","h","e"," ","d","o","c","k","."," ","T","h","e","n"," ","h","e"," ",
       "l","e","f","t","." >>

S4First ==
    << "D","r","."," ","S","m","i","t","h"," ","w","e","n","t"," ","t","o"," ",
       "t","h","e"," ","d","o","c","k","." >>

S4Second == << "T","h","e","n"," ","h","e"," ","l","e","f","t","." >>

S4Init ==
    /\ buffer = <<>>
    /\ options = DEFAULT_OPTIONS
    /\ input = <<>>
    /\ chunks = <<>>
    /\ phase = "streaming"
    /\ scanned = <<>>
    /\ deferrals = 0
    /\ adds = 0
    /\ pos = 0
    /\ PipelineOff
    /\ ComponentsOff

S4Add ==
    /\ phase = "streaming"
    /\ pos < Len(S4Text)
    /\ \E n \in 1..(Len(S4Text) - pos) :
          /\ AddText(SubSeq(S4Text, pos + 1, pos + n))
          /\ pos' = pos + n
    /\ UNCHANGED <<pipelineVars, componentVars>>

S4Flush ==
    /\ pos = Len(S4Text)
    /\ Flush

S4Next == S4Add \/ S4Flush

SpecS4 == S4Init /\ [][S4Next]_vars

-----------------------------------------------------------------------------
(* Properties of the chunker *)

ChunkTexts == [i \in 1..Len(chunks) |-> chunks[i].text]

\* inp is w0 c1 w1 c2 ... cn wn with every wi whitespace only
RECURSIVE MatchesUpToTrim(_, _)
MatchesUpToTrim(inp, cs) ==
    LET t == TrimStart(inp)
    IN  IF cs = <<>> THEN t = <<>>
        ELSE /\ Len(t) >= Len(Head(cs))
             /\ SubSeq(t, 1, Len(Head(cs))) = Head(cs)
             /\ MatchesUpToTrim(SubSeq(t, Len(Head(cs)) + 1, Len(t)), Tail(cs))

RECURSIVE Concat(_)
Concat(ss) == IF ss = <<>> THEN <<>> ELSE Head(ss) \o Concat(Tail(ss))

NonSpace(s) == SelectSeq(s, LAMBDA c : ~IsSpace(c))

\* C6 (as claimed): once the stream is flushed, the chunks concatenate to the
\* input tokens, up to whitespace trimmed where chunks were yielded.
C6_ContentPreserved ==
    phase = "flushed" => MatchesUpToTrim(input, ChunkTexts)

C8_MaximumSize ==
    \A i \in 1..Len(chunks) : Len(chunks[i].text) <= options.maxChunkSize

\* The word that ends just before position i of buf, lower-cased
WordBefore(buf, i) ==
    LET sp == {j \in 1..(i - 1) : IsSpace(buf[j])}
        from == IF sp = {} THEN 1 ELSE MaxOf(sp) + 1
    IN  ToLowerCase(SubSeq(buf, from, i - 1))

\* Boundaries as the abbreviation rule states them: punctuation then whitespace,
\* except a period whose preceding word is an abbreviation
StatedBoundaries(buf) ==
    {i \in 1..(Len(buf) - 1) :
        /\ buf[i] \in SentencePunct
        /\ IsSpace(buf[i + 1])
        /\ ~(buf[i] = "." /\ WordBefore(buf, i) \in ABBREVIATIONS)}

\* C9 (as claimed): in sentence mode, the first '.', '!' or '?' followed by
\* whitespace in the scanned buffer is detected as a boundary unless it is a
\* period after an abbreviation.
C9_AbbreviationSoleException ==
    (options.mode = "sentence" /\ phase = "streaming") =>
        LET r == extractSentence(scanned)
            b == StatedBoundaries(scanned)
        IN  IF b = {} THEN ~r.found
            ELSE r.found /\ r.chunk = Trim(SubSeq(scanned, 1, MinOf(b)))

\* C10: however S4's text is divided into tokens, the chunks (with the final
\* flush) are exactly "Dr. Smith went to the dock." and "Then he left.".
C10_AbbreviationSafe ==
    phase = "flushed" => ChunkTexts = <<S4First, S4Second>>

\* C10 witness: the whole text was added, the first chunk came from add() and
\* the second from flush().
C10_Witness ==
    /\ phase = "flushed"
    /\ input = S4Text
    /\ Len(chunks) = 2
    /\ chunks[1].kind = "boundary"
    /\ chunks[2].kind = "flush"

-----------------------------------------------------------------------------
(* The agents: IrisAgent.chat (producer task, chunk queue, consumer loop)   *)
(* and LocalAgent.chat (one generator body)                                 *)

Chunk(type, content) == [type |-> type, content |-> content]

Null == Chunk("null", <<>>)

AckText == << "O","n"," ","i","t","." >>

DeltaA == S4First \o << " " >>

DeltaB == S4Second

\* Messages of the model stream (SDKMessage / Ollama chunk)
SdkMessages ==
    { "system_init", "assistant", "delta_a", "delta_b", "delta_empty",
      "tool_progress", "result_success", "result_error" }

\* IrisAgent.processMessage
processMessage(m) ==
    CASE m = "system_init"   -> Chunk("system", <<>>)
      [] m = "delta_a"       -> Chunk("text", DeltaA)
      [] m = "delta_b"       -> Chunk("text", DeltaB)
      [] m = "tool_progress" -> Chunk("tool_start", <<>>)
      [] m = "result_error"  -> Chunk("error", <<>>)
      [] OTHER               -> Null

\* LocalAgent.chat: the chunk made of one Ollama message, if it has content
localMessage(m) ==
    CASE m = "delta_a" -> Chunk("text", DeltaA)
      [] m = "delta_b" -> Chunk("text", DeltaB)
      [] OTHER         -> Null

EnqueueFront(q, c) == <<c>> \o q

\* chunkQueue.push(chunk)
Enqueue(q, c) == Append(q, c)

DequeueLast(q) == [item |-> q[Len(q)], rest |-> SubSeq(q, 1, Len(q) - 1)]

\* chunkQueue.shift()
Dequeue(q) == [item |-> Head(q), rest |-> Tail(q)]

StreamEndNothing(agent) == <<>>

\* what the producer submits when the model stream ends without throwing
StreamEndChunks(agent) == << Chunk("done", <<>>) >>

\* A signal() that leaves a waiting consumer asleep.
SignalLost == UNCHANGED <<resolveWaiting, cpc>>

\* signal()
Signal ==
    IF resolveWaiting
    THEN resolveWaiting' = FALSE /\ cpc' = "woken"
    ELSE UNCHANGED <<resolveWaiting, cpc>>

\* pushChunk(chunk)
pushChunk(c) ==
    /\ queue' = Enqueue(queue, c)
    /\ pushed' = Append(pushed, c)
    /\ Signal

\* The response writer of the agent API: one chunk yielded by chat() is
\* written to the response of the turn it serves
Written(c) == sse' = [sse EXCEPT ![chatTurn] = Append(@, c)]

\* chat(message) is called for the oldest pending request; the agent of a
\* user serves one request at a time
ChatCall ==
    /\ chatTurn = 0
    /\ reqQ # <<>>
    /\ chatTurn' = Head(reqQ)
    /\ reqQ' = Tail(reqQ)
    /\ \E wantsAck \in BOOLEAN : ppc' = IF wantsAck THEN "ack" ELSE "prompt"
    /\ queue' = <<>>
    /\ pdone' = FALSE
    /\ pushed' = <<>>
    /\ assistantLog' = <<>>
    /\ yielded' = <<>>
    /\ msgs' = 0
    /\ IF agentKind = "iris"
       THEN cpc' = "waiting" /\ resolveWaiting' = TRUE
       ELSE cpc' = "running" /\ resolveWaiting' = FALSE
    /\ UNCHANGED <<agentKind, sse, sseOpen, viewVars, clientVars, serverVars, chunkerVars, componentVars>>

\* IrisAgent.chat, producer: await getAcknowledgment(); push it when there is one
IrisAck ==
    /\ agentKind = "iris"
    /\ ppc = "ack"
    /\ ppc' = "prompt"
    /\ \E got \in BOOLEAN :
          IF got
          THEN pushChunk(Chunk("acknowledgment", AckText))
          ELSE UNCHANGED <<queue, pushed, resolveWaiting, cpc>>
    /\ UNCHANGED <<agentKind, assistantLog, chatTurn, pdone, yielded, msgs, apiVars, viewVars,
                   clientVars, serverVars, chunkerVars, componentVars>>

\* A producer that starts query() only once the caller has taken the
\* acknowledgment from the queue.
IrisPromptAfterAck ==
    /\ agentKind = "iris"
    /\ ppc = "prompt"
    /\ queue = <<>>
    /\ \E ok \in BOOLEAN : ppc' = IF ok THEN "stream" ELSE "rejected"
    /\ UNCHANGED <<agentKind, assistantLog, chatTurn, cpc, queue, pdone, resolveWaiting, pushed,
                   yielded, msgs, apiVars, viewVars, clientVars, serverVars, chunkerVars, componentVars>>

\* IrisAgent.chat, producer: await promptPromise, record the user message,
\* start query(); a failure rejects the producer
IrisPrompt ==
    /\ agentKind = "iris"
    /\ ppc = "prompt"
    /\ \E ok \in BOOLEAN : ppc' = IF ok THEN "stream" ELSE "rejected"
    /\ UNCHANGED <<agentKind, assistantLog, chatTurn, cpc, queue, pdone, resolveWaiting, pushed,
                   yielded, msgs, apiVars, viewVars, clientVars, serverVars, chunkerVars, componentVars>>

\* IrisAgent.chat, producer: one message of the model stream
IrisMessage ==
    /\ agentKind = "iris"
    /\ ppc = "stream"
    /\ msgs < MaxMsgs
    /\ msgs' = msgs + 1
    /\ \E m \in SdkMessages :
          IF processMessage(m) # Null
          THEN pushChunk(processMessage(m))
          ELSE UNCHANGED <<queue, pushed, resolveWaiting, cpc>>
    /\ UNCHANGED <<agentKind, assistantLog, chatTurn, ppc, pdone, yielded, apiVars, viewVars,
                   clientVars, serverVars, chunkerVars, componentVars>>

\* responseText at the end of the stream: the contents of the text chunks
RECURSIVE responseText(_)
responseText(cs) ==
    IF cs = <<>> THEN <<>>
    ELSE (IF Head(cs).type = "text" THEN Head(cs).content ELSE <<>>) \o responseText(Tail(cs))

\* A stream end that never records the assistant's response.
recordAssistantNever(text, n) == <<>>

\* if (responseText) addConversationMessage(userId, "assistant", responseText)
recordAssistant(text, n) ==
    IF text # <<>> THEN << [text |-> text, at |-> n] >> ELSE <<>>

\* A producer whose state.done is set at the end of the try block instead of in finally.
ProducerFinishNoFinally(cs, left) ==
    /\ queue' = IF cs = <<>> THEN queue ELSE Enqueue(queue, Head(cs))
    /\ pushed' = pushed \o cs
    /\ assistantLog' = IF left = "ended" THEN recordAssistant(responseText(pushed), Len(pushed))
                                          ELSE assistantLog
    /\ pdone' = (left = "ended")
    /\ Signal
    /\ ppc' = left
    /\ UNCHANGED <<agentKind, chatTurn, yielded, msgs, apiVars, viewVars,
                   clientVars, serverVars, chunkerVars, componentVars>>

\* the producer leaves the stream: its last chunks, then state.done and signal()
ProducerFinish(cs, left) ==
    /\ queue' = IF cs = <<>> THEN queue ELSE Enqueue(queue, Head(cs))
    /\ pushed' = pushed \o cs
    /\ assistantLog' = IF left = "ended" THEN recordAssistant(responseText(pushed), Len(pushed))
                                          ELSE assistantLog
    /\ pdone' = TRUE
    /\ Signal
    /\ ppc' = left
    /\ UNCHANGED <<agentKind, chatTurn, yielded, msgs, apiVars, viewVars,
                   clientVars, serverVars, chunkerVars, componentVars>>

\* IrisAgent.chat, producer: the model stream ends; push 'done'; finally
IrisStreamEnd ==
    /\ agentKind = "iris"
    /\ ppc = "stream"
    /\ ProducerFinish(StreamEndChunks(agentKind), "ended")

\* IrisAgent.chat, producer: the model stream throws; push 'error'; finally
IrisStreamThrow ==
    /\ agentKind = "iris"
    /\ ppc = "stream"
    /\ ProducerFinish(<< Chunk("error", <<>>) >>, "threw")

\* producer.catch: the producer rejected before it entered the stream
IrisProducerCatch ==
    /\ agentKind = "iris"
    /\ ppc = "rejected"
    /\ ProducerFinish(<< Chunk("error", <<>>) >>, "failed")

\* IrisAgent.chat, consumer loop from the point where the generator resumes:
\* yield the next queued chunk, or return when the producer is done, or
\* wait for the next signal
Drain ==
    IF queue # <<>>
    THEN /\ queue' = Dequeue(queue).rest
         /\ yielded' = Append(yielded, Dequeue(queue).item)
         /\ Written(Dequeue(queue).item)
         /\ cpc' = "yielded"
         /\ UNCHANGED resolveWaiting
    ELSE /\ IF pdone
            THEN cpc' = "returned" /\ UNCHANGED resolveWaiting
            ELSE cpc' = "waiting" /\ resolveWaiting' = TRUE
         /\ UNCHANGED <<queue, yielded, sse>>

\* the promise of waitForChunk() resolved: the consumer loop continues
ConsumerWake ==
    /\ agentKind = "iris"
    /\ cpc = "woken"
    /\ Drain
    /\ UNCHANGED <<agentKind, assistantLog, chatTurn, ppc, pdone, pushed, msgs, reqQ, sseOpen,
                   viewVars, clientVars, serverVars, chunkerVars, componentVars>>

\* the caller asks for the next chunk: the generator resumes after its yield
ConsumerNext ==
    /\ agentKind = "iris"
    /\ cpc = "yielded"
    /\ Drain
    /\ UNCHANGED <<agentKind, assistantLog, chatTurn, ppc, pdone, pushed, msgs, reqQ, sseOpen,
                   viewVars, clientVars, serverVars, chunkerVars, componentVars>>

\* LocalAgent.chat: a yield statement
localYield(c) ==
    /\ pushed' = Append(pushed, c)
    /\ yielded' = Append(yielded, c)
    /\ Written(c)

\* LocalAgent.chat: await getAcknowledgment(); yield it when there is one
LocalAck ==
    /\ agentKind = "local"
    /\ ppc = "ack"
    /\ ppc' = "prompt"
    /\ \E got \in BOOLEAN :
          IF got
          THEN localYield(Chunk("acknowledgment", AckText))
          ELSE UNCHANGED <<pushed, yielded, sse>>
    /\ UNCHANGED <<agentKind, assistantLog, chatTurn, cpc, queue, pdone, resolveWaiting, msgs,
                   reqQ, sseOpen, viewVars, clientVars, serverVars, chunkerVars, componentVars>>

\* LocalAgent.chat: await buildPromptWithContext(), record the user message;
\* a failure leaves the generator by an exception
LocalPrompt ==
    /\ agentKind = "local"
    /\ ppc = "prompt"
    /\ \E ok \in BOOLEAN :
          IF ok
          THEN ppc' = "stream" /\ UNCHANGED cpc
          ELSE ppc' = "failed" /\ cpc' = "threw"
    /\ UNCHANGED <<agentKind, assistantLog, chatTurn, queue, pdone, resolveWaiting, pushed,
                   yielded, msgs, apiVars, viewVars, clientVars, serverVars, chunkerVars, componentVars>>

\* LocalAgent.chat: one chunk of the Ollama stream
LocalMessage ==
    /\ agentKind = "local"
    /\ ppc = "stream"
    /\ msgs < MaxMsgs
    /\ msgs' = msgs + 1
    /\ \E m \in SdkMessages :
          IF localMessage(m) # Null
          THEN localYield(localMessage(m))
          ELSE UNCHANGED <<pushed, yielded, sse>>
    /\ UNCHANGED <<agentKind, assistantLog, chatTurn, ppc, cpc, queue, pdone, resolveWaiting,
                   reqQ, sseOpen, viewVars, clientVars, serverVars, chunkerVars, componentVars>>

\* the generator body of LocalAgent.chat ends after its last chunks
localFinish(cs, left) ==
    /\ pushed' = pushed \o cs
    /\ assistantLog' = IF left = "ended" THEN recordAssistant(responseText(pushed), Len(pushed))
                                          ELSE assistantLog
    /\ yielded' = yielded \o cs
    /\ sse' = [sse EXCEPT ![chatTurn] = @ \o cs]
    /\ ppc' = left
    /\ cpc' = "returned"
    /\ UNCHANGED <<agentKind, chatTurn, queue, pdone, resolveWaiting, msgs,
                   reqQ, sseOpen, viewVars, clientVars, serverVars, chunkerVars, componentVars>>

\* LocalAgent.chat: the stream ends; yield 'done'
LocalStreamEnd ==
    /\ agentKind = "local"
    /\ ppc = "stream"
    /\ localFinish(StreamEndChunks(agentKind), "ended")

\* LocalAgent.chat: the stream throws; yield 'error'
LocalStreamThrow ==
    /\ agentKind = "local"
    /\ ppc = "stream"
    /\ localFinish(<< Chunk("error", <<>>) >>, "threw")

\* the generator returned or threw: the agent API ends the response
ChatReturn ==
    /\ cpc \in {"returned", "threw"}
    /\ sseOpen' = [sseOpen EXCEPT ![chatTurn] = FALSE]
    /\ chatTurn' = 0
    /\ ppc' = "idle"
    /\ cpc' = "idle"
    /\ UNCHANGED <<agentKind, assistantLog, queue, pdone, resolveWaiting, pushed, yielded, msgs,
                   reqQ, sse, viewVars, clientVars, serverVars, chunkerVars, componentVars>>

AgentNext ==
    \/ ChatCall
    \/ IrisAck \/ IrisPrompt \/ IrisMessage
    \/ IrisStreamEnd \/ IrisStreamThrow \/ IrisProducerCatch
    \/ ConsumerWake \/ ConsumerNext
    \/ LocalAck \/ LocalPrompt \/ LocalMessage
    \/ LocalStreamEnd \/ LocalStreamThrow
    \/ ChatReturn

-----------------------------------------------------------------------------
(* The chat view (Chat.tsx) and the voice client (voice.ts)                 *)

Frame(type, t, origin) == [type |-> type, turn |-> t, origin |-> origin]

Plain(type) == Frame(type, 0, "none")

\* turns that are generating or speaking: a handleSend is running, or
\* synthesis requests or audio of the turn are still on their way
InFlight ==
    { t \in Turns :
        \/ hs[t].active
        \/ \E i \in 1..Len(c2s) : c2s[i].turn = t
        \/ \E i \in 1..Len(ttsQ) : ttsQ[i].turn = t
        \/ \E i \in 1..Len(s2c) : s2c[i].turn = t }

\* sendBinary(type, payload): only on an open socket
sendBinary(wire, frames) == IF ws = "open" THEN wire \o frames ELSE wire

\* handleSend, synchronous part: the request of a new turn is sent
\*   voice: the text came from onTranscription
startTurn(voice) ==
    /\ turn' = turn + 1
    /\ isStreaming' = TRUE
    /\ hs' = [hs EXCEPT ![turn + 1] =
                [active |-> TRUE, voice |-> voice /\ ws = "open", buf |-> <<>>]]
    /\ reqQ' = Append(reqQ, turn + 1)
    /\ sse' = [sse EXCEPT ![turn + 1] = <<>>]
    /\ sseOpen' = [sseOpen EXCEPT ![turn + 1] = TRUE]

\* handleSend() from the text box: refused while isStreaming
SendTyped ==
    /\ agentKind # "none"
    /\ turn < MaxTurns
    /\ ~isStreaming
    /\ startTurn(FALSE)
    /\ UNCHANGED <<agentVars, clientVars, serverVars, chunkerVars, componentVars>>

\* synthesizeChunk: texts that are blank after trimming are not spoken
spoken(cs) == SelectSeq(cs, LAMBDA x : Trim(x.text) # <<>>)

\* chunker.add(chunk.content): the completed chunks and the buffer left
added(r) == [texts |-> spoken(r.chunks), buf |-> r.buffer]

\* the texts handleSend hands to synthesizeChunk for one stream chunk, and
\* the chunker buffer it leaves
toSpeak(h, c) ==
    CASE ~h.voice -> [texts |-> <<>>, buf |-> h.buf]
      [] c.type = "acknowledgment" ->
            [texts |-> spoken(<<[text |-> c.content, kind |-> "ack"]>>), buf |-> h.buf]
      [] c.type = "text" -> added(extractChunks(h.buf \o c.content, DEFAULT_OPTIONS))
      [] c.type = "done" ->
            [texts |-> spoken(flushResult(h.buf, DEFAULT_OPTIONS)), buf |-> <<>>]
      [] OTHER -> [texts |-> <<>>, buf |-> h.buf]

\* VoiceClient.synthesize(), once per text
synthesizeAll(t, texts) ==
    LET reqs == [i \in 1..Len(texts) |->
                    Frame("SYNTHESIZE", t, IF texts[i].kind = "ack" THEN "ack" ELSE "main")]
    IN  IF texts = <<>>
        THEN UNCHANGED <<pendingSynthesisText, c2s, vstate, synthLog>>
        ELSE /\ pendingSynthesisText' = TRUE
             /\ c2s' = sendBinary(c2s, reqs)
             /\ vstate' = "speaking"
             /\ synthLog' = synthLog \o reqs

\* handleSend, loop body: one chunk of the response stream
StreamDeliver ==
    \E t \in Turns :
        /\ hs[t].active
        /\ sse[t] # <<>>
        /\ \E r \in { toSpeak(hs[t], Head(sse[t])) } :
              /\ hs' = [hs EXCEPT ![t].buf = r.buf]
              /\ synthesizeAll(t, r.texts)
        /\ sse' = [sse EXCEPT ![t] = Tail(@)]
        /\ UNCHANGED <<agentVars, reqQ, sseOpen, turn, isStreaming, ws, recordings, micPending,
                       capturing, playbackContext, scheduled, interrupted,
                       s2c, sstate, ttsQ, wireLog, chunkerVars, componentVars>>

\* handleSend, end of the response stream: finally { setIsStreaming(false) }
StreamClose ==
    \E t \in Turns :
        /\ hs[t].active
        /\ sse[t] = <<>>
        /\ ~sseOpen[t]
        /\ hs' = [hs EXCEPT ![t].active = FALSE]
        /\ isStreaming' = FALSE
        /\ UNCHANGED <<agentVars, apiVars, turn, clientVars, serverVars, chunkerVars, componentVars>>

\* the microphone button is rendered and enabled (the voices have loaded:
\* voiceReady)
micButtonEnabled == ~isStreaming /\ vstate \notin {"speaking", "processing"}

\* startRecording(): its entry test
startRecordingAccepts == vstate = "ready"

\* toggleRecording() in state idle or ready on a socket that is not open:
\* connect(); the server accepts the connection and sends READY
ToggleConnect ==
    /\ agentKind # "none"
    /\ micButtonEnabled
    /\ vstate \in {"idle", "ready"}
    /\ ws # "open"
    /\ recordings < MaxRecordings
    /\ ws' = "open"
    /\ vstate' = "connecting"
    /\ sstate' = "IDLE"
    /\ s2c' = Append(s2c, Plain("READY"))
    /\ UNCHANGED <<agentVars, apiVars, viewVars, recordings, micPending, capturing, playbackContext,
                   scheduled, pendingSynthesisText, synthLog, interrupted,
                   c2s, ttsQ, wireLog, chunkerVars, componentVars>>

\* toggleRecording() in state idle or ready on an open socket:
\* startRecording() up to its await of getUserMedia
ToggleStart ==
    /\ micButtonEnabled
    /\ vstate \in {"idle", "ready"}
    /\ ws = "open"
    /\ startRecordingAccepts
    /\ recordings < MaxRecordings
    /\ recordings' = recordings + 1
    /\ micPending' = micPending + 1
    /\ UNCHANGED <<agentVars, apiVars, viewVars, vstate, ws, capturing, playbackContext,
                   scheduled, pendingSynthesisText, synthLog, interrupted,
                   serverVars, chunkerVars, componentVars>>

\* startRecording() after getUserMedia resolved: AUDIO_START, state recording
MicGranted ==
    /\ micPending > 0
    /\ micPending' = micPending - 1
    /\ capturing' = TRUE
    /\ c2s' = sendBinary(c2s, << Plain("AUDIO_START") >>)
    /\ vstate' = "recording"
    /\ interrupted' = interrupted \cup InFlight
    /\ UNCHANGED <<agentVars, apiVars, viewVars, ws, recordings, playbackContext, scheduled,
                   pendingSynthesisText, synthLog, s2c, sstate, ttsQ, wireLog, chunkerVars, componentVars>>

\* startRecording(): getUserMedia rejected
MicDenied ==
    /\ micPending > 0
    /\ micPending' = micPending - 1
    /\ UNCHANGED <<agentVars, apiVars, viewVars, vstate, ws, recordings, capturing, playbackContext,
                   scheduled, pendingSynthesisText, synthLog, interrupted,
                   serverVars, chunkerVars, componentVars>>

\* stopRecording(): the variables it leaves when the state is 'recording'
stopRecording ==
    IF vstate = "recording"
    THEN [capturing |-> FALSE, c2s |-> sendBinary(c2s, << Plain("AUDIO_END") >>),
          vstate |-> "processing"]
    ELSE [capturing |-> capturing, c2s |-> c2s, vstate |-> vstate]

\* stopAudio(): the state it leaves, entered in state st
stopAudio(st) == IF st = "speaking" THEN "ready" ELSE st

\* toggleRecording() in state recording
ToggleStop ==
    /\ micButtonEnabled
    /\ vstate = "recording"
    /\ capturing' = stopRecording.capturing
    /\ c2s' = stopRecording.c2s
    /\ vstate' = stopRecording.vstate
    /\ UNCHANGED <<agentVars, apiVars, viewVars, ws, recordings, micPending, playbackContext,
                   scheduled, pendingSynthesisText, synthLog, interrupted,
                   s2c, sstate, ttsQ, wireLog, chunkerVars, componentVars>>

\* the stop button, shown in state speaking: stopAudio()
StopAudio ==
    /\ vstate = "speaking"
    /\ playbackContext' = FALSE
    /\ pendingSynthesisText' = FALSE
    /\ vstate' = stopAudio(vstate)
    /\ scheduled' = <<>>
    /\ interrupted' = interrupted \cup InFlight
    /\ UNCHANGED <<agentVars, apiVars, viewVars, ws, recordings, micPending, capturing,
                   synthLog, serverVars, chunkerVars, componentVars>>

\* the Escape key in state speaking, recording or processing: interruptAll()
Escape ==
    /\ vstate \in {"speaking", "recording", "processing"}
    /\ capturing' = stopRecording.capturing
    /\ c2s' = stopRecording.c2s
    /\ vstate' = stopAudio(stopRecording.vstate)
    /\ playbackContext' = FALSE
    /\ pendingSynthesisText' = FALSE
    /\ scheduled' = <<>>
    /\ interrupted' = interrupted \cup InFlight
    /\ UNCHANGED <<agentVars, apiVars, viewVars, ws, recordings, micPending, synthLog,
                   s2c, sstate, ttsQ, wireLog, chunkerVars, componentVars>>

\* ws.onmessage / handleBinaryMessage: one frame from the server
ClientReceive ==
    /\ ws = "open"
    /\ s2c # <<>>
    /\ s2c' = Tail(s2c)
    /\ LET f == Head(s2c)
       IN  CASE f.type = "READY" ->
                  \* the pending connect() resolves and toggleRecording goes on
                  \* to startRecording()
                  /\ vstate' = "ready"
                  /\ micPending' = IF vstate = "connecting" THEN micPending + 1 ELSE micPending
                  /\ recordings' = IF vstate = "connecting" THEN recordings + 1 ELSE recordings
                  /\ UNCHANGED <<apiVars, viewVars, playbackContext, scheduled,
                                 pendingSynthesisText>>
             [] f.type = "TRANSCRIPTION" ->
                  \* onTranscription(text): handleSend(text) of the first render,
                  \* whose isStreaming is false
                  /\ turn < MaxTurns
                  /\ startTurn(TRUE)
                  /\ vstate' = "ready"
                  /\ UNCHANGED <<recordings, micPending, playbackContext, scheduled, pendingSynthesisText>>
             [] f.type = "AUDIO_START" ->
                  /\ vstate' = "speaking"
                  /\ UNCHANGED <<apiVars, viewVars, recordings, micPending, playbackContext, scheduled,
                                 pendingSynthesisText>>
             [] f.type = "TTS_AUDIO" ->
                  \* playRawAudio -> playPcmBytes: creates the playback context
                  \* when there is none and schedules the frame
                  /\ playbackContext' = TRUE
                  /\ scheduled' = Append(scheduled,
                        [turn |-> f.turn, origin |-> f.origin, late |-> f.turn \in interrupted])
                  /\ UNCHANGED <<apiVars, viewVars, vstate, recordings, micPending, pendingSynthesisText>>
             [] f.type = "AUDIO_END" ->
                  /\ pendingSynthesisText' = FALSE
                  /\ vstate' = "ready"
                  /\ UNCHANGED <<apiVars, viewVars, recordings, micPending, playbackContext, scheduled>>
             [] f.type = "ERROR" ->
                  /\ vstate' = "ready"
                  /\ UNCHANGED <<apiVars, viewVars, recordings, micPending, playbackContext, scheduled,
                                 pendingSynthesisText>>
             [] OTHER ->
                  \* DONE, PONG and unknown types have no case
                  UNCHANGED <<apiVars, viewVars, vstate, recordings, micPending, playbackContext,
                              scheduled, pendingSynthesisText>>
    /\ UNCHANGED <<agentVars, ws, capturing, synthLog, interrupted,
                   c2s, sstate, ttsQ, wireLog, chunkerVars, componentVars>>

-----------------------------------------------------------------------------
(* The voice server, from the session state machine and the ordering rules  *)
(* of the specification: one reader, one FIFO outbound queue, one writer    *)

\* the frames of one TTS segment
segment(req) ==
    << Plain("AUDIO_START"), Frame("TTS_AUDIO", req.turn, req.origin), Plain("AUDIO_END") >>

\* the reader takes one client frame
ServerReceive ==
    /\ c2s # <<>>
    /\ c2s' = Tail(c2s)
    /\ LET f == Head(c2s)
       IN  CASE f.type = "AUDIO_START" ->
                  \* a new utterance cancels the turn in flight
                  /\ sstate' = "LISTENING"
                  /\ ttsQ' = <<>>
             [] f.type = "AUDIO_END" ->
                  /\ sstate' = IF sstate = "LISTENING" THEN "PROCESSING" ELSE sstate
                  /\ UNCHANGED ttsQ
             [] OTHER ->
                  /\ ttsQ' = ttsQ \o segment(f)
                  /\ sstate' = IF sstate = "IDLE" THEN "SPEAKING" ELSE sstate
    /\ UNCHANGED <<agentVars, apiVars, viewVars, clientVars, s2c, wireLog, chunkerVars, componentVars>>

\* transcripts sent so far: the voice turns and the transcripts on the wire
Transcripts ==
    Cardinality({ t \in 1..turn : hs[t].voice })
      + Cardinality({ i \in 1..Len(s2c) : s2c[i].type = "TRANSCRIPTION" })

\* the recognizer finishes: a final transcript, an empty one, or an error
ServerStt ==
    /\ sstate = "PROCESSING"
    /\ sstate' = "IDLE"
    /\ \E outcome \in {"TRANSCRIPTION", "DONE", "ERROR"} :
          /\ outcome = "TRANSCRIPTION" => Transcripts < MaxTranscripts
          /\ s2c' = Append(s2c, Plain(outcome))
    /\ UNCHANGED <<agentVars, apiVars, viewVars, clientVars, c2s, ttsQ, wireLog, chunkerVars, componentVars>>

\* the writer drains the outbound queue in FIFO order
ServerSend ==
    /\ ttsQ # <<>>
    /\ ttsQ' = Tail(ttsQ)
    /\ s2c' = Append(s2c, Head(ttsQ))
    /\ wireLog' = IF Head(ttsQ).type = "TTS_AUDIO"
                  THEN Append(wireLog, [turn |-> Head(ttsQ).turn, origin |-> Head(ttsQ).origin,
                                        late |-> Head(ttsQ).turn \in interrupted])
                  ELSE wireLog
    /\ sstate' = IF Len(ttsQ) = 1 /\ sstate = "SPEAKING" THEN "IDLE" ELSE sstate
    /\ UNCHANGED <<agentVars, apiVars, viewVars, clientVars, c2s, chunkerVars, componentVars>>

-----------------------------------------------------------------------------
(* The pipeline: an agent behind the agent API, the chat view, the voice    *)
(* client and the voice server                                              *)

PipelineInit ==
    /\ ChunkerOff
    /\ ComponentsOff
    /\ agentKind \in {"iris", "local"}
    /\ chatTurn = 0
    /\ ppc = "idle"
    /\ cpc = "idle"
    /\ queue = <<>>
    /\ pdone = FALSE
    /\ resolveWaiting = FALSE
    /\ pushed = <<>>
    /\ assistantLog = <<>>
    /\ yielded = <<>>
    /\ msgs = 0
    /\ reqQ = <<>>
    /\ sse = [t \in Turns |-> <<>>]
    /\ sseOpen = [t \in Turns |-> FALSE]
    /\ turn = 0
    /\ isStreaming = FALSE
    /\ hs = [t \in Turns |-> [active |-> FALSE, voice |-> FALSE, buf |-> <<>>]]
    /\ vstate = "idle"
    /\ ws = "none"
    /\ recordings = 0
    /\ micPending = 0
    /\ capturing = FALSE
    /\ playbackContext = FALSE
    /\ scheduled = <<>>
    /\ pendingSynthesisText = FALSE
    /\ synthLog = <<>>
    /\ interrupted = {}
    /\ c2s = <<>>
    /\ s2c = <<>>
    /\ sstate = "CLOSED"
    /\ ttsQ = <<>>
    /\ wireLog = <<>>

ViewNext == SendTyped \/ StreamDeliver \/ StreamClose

VoiceNext ==
    \/ ToggleConnect \/ ToggleStart \/ MicGranted \/ MicDenied \/ ToggleStop
    \/ StopAudio \/ Escape \/ ClientReceive

ServerNext == ServerReceive \/ ServerStt \/ ServerSend

\* a session driven from the text box only
TextNext == AgentNext \/ ViewNext

SpecText == PipelineInit /\ [][TextNext]_vars

\* a session driven by voice only
SpokenNext == AgentNext \/ StreamDeliver \/ StreamClose \/ VoiceNext \/ ServerNext

SpecVoice == PipelineInit /\ [][SpokenNext]_vars

-----------------------------------------------------------------------------
(* Properties of the pipeline *)

\* in log, every entry that satisfies a comes before every entry that satisfies b
Precedes(log, a(_), b(_)) ==
    \A i, j \in 1..Len(log) : (a(log[i]) /\ b(log[j])) => i < j

CountOf(log, type) == Cardinality({ i \in 1..Len(log) : log[i].type = type })

\* C1 Ack-before-answer: within one turn the acknowledgment comes first: chat()
\* yields the 'acknowledgment' chunk before every 'text' chunk, the client
\* requests synthesis of the acknowledgment before synthesis of any chunk of
\* the main answer, and every TTS_AUDIO frame of the acknowledgment is put on
\* the wire before every TTS_AUDIO frame of the main answer.
C1_AckBeforeAnswer ==
    /\ Precedes(yielded, LAMBDA c : c.type = "acknowledgment", LAMBDA c : c.type = "text")
    /\ \A t \in Turns :
          /\ Precedes(synthLog, LAMBDA r : r.turn = t /\ r.origin = "ack",
                                LAMBDA r : r.turn = t /\ r.origin = "main")
          /\ Precedes(wireLog, LAMBDA r : r.turn = t /\ r.origin = "ack",
                               LAMBDA r : r.turn = t /\ r.origin = "main")

\* a turn whose acknowledgment and main answer both reached the wire
C1_Witness ==
    \E i, j \in 1..Len(wireLog) :
        /\ wireLog[i].turn = wireLog[j].turn
        /\ wireLog[i].origin = "ack"
        /\ wireLog[j].origin = "main"
        /\ \E k \in 1..Len(synthLog) : synthLog[k].origin = "ack"

C3_NoAudioAfterInterrupt ==
    /\ \A i \in 1..Len(wireLog) : ~wireLog[i].late
    /\ \A i \in 1..Len(scheduled) : ~scheduled[i].late

\* C4 Barge-in: while the assistant is speaking, or a turn is generating, the
\* user can start a new utterance.
C4_BargeIn ==
    ((vstate = "speaking" \/ isStreaming) /\ ws = "open" /\ recordings < MaxRecordings)
        => ENABLED ToggleStart

\* C5 Single writer: what chat() has yielded, followed by what is still queued,
\* is exactly what the producer pushed, in push order; when the generator
\* returns nothing is left in the queue.
C5_SingleWriter ==
    /\ pushed = yielded \o queue
    /\ cpc = "returned" => yielded = pushed

\* IrisAgent.chat returned after an acknowledgment, text and 'done' went through the queue
C5_Witness ==
    /\ agentKind = "iris"
    /\ cpc = "returned"
    /\ Len(yielded) >= 3
    /\ yielded[1].type = "acknowledgment"

-----------------------------------------------------------------------------
(* Forced splits: a chunker whose maximum is larger than the search window  *)
(* of forceExtract, fed with long unbroken words                            *)

Rep(c, n) == [i \in 1..n |-> c]

LongVocabulary ==
    { Rep("x", LongLen), <<"a","b","."," ">>, <<"c","d",","," ">>, <<"e"," ">> }

ForceOptions ==
    { [mode |-> m, minChunkSize |-> SmallMin, maxChunkSize |-> ForceMax] :
        m \in {"sentence", "paragraph"} }

ForceInit ==
    /\ buffer = <<>>
    /\ options \in ForceOptions
    /\ input = <<>>
    /\ chunks = <<>>
    /\ phase = "streaming"
    /\ scanned = <<>>
    /\ deferrals = 0
    /\ adds = 0
    /\ pos = 0
    /\ PipelineOff
    /\ ComponentsOff

ForceAdd ==
    /\ phase = "streaming"
    /\ adds < MaxTokens
    /\ \E tok \in LongVocabulary : AddText(tok)
    /\ UNCHANGED pos
    /\ UNCHANGED <<pipelineVars, componentVars>>

ForceNext == ForceAdd \/ Flush

SpecForce == ForceInit /\ [][ForceNext]_vars

\* the buffer the last add() handed to forceExtract: what the extraction loop left
ForcedInput == extractLoop(scanned, options, <<>>).buffer

\* the last add() forced a split
Forced == phase = "streaming" /\ adds > 0 /\ Len(ForcedInput) > options.maxChunkSize

\* cut positions (number of characters before the cut) that put the two
\* characters pat at the end of the part before position hi, the cut falling
\* after the first of them, with both characters after position lo
CutsAfter(b, pat, lo, hi) ==
    { p \in (lo + 1)..(hi - 1) : p + 1 <= Len(b) /\ b[p] = pat[1] /\ b[p + 1] = pat[2] }

\* cut positions in front of a space, the space being after position lo and
\* not after position hi
CutsBeforeSpace(b, lo, hi) ==
    { p \in lo..(hi - 1) : p + 1 <= Len(b) /\ b[p + 1] = " " }

\* the cut of buffer b: the last sentence break between lo and the maximum,
\* else the last comma, else the last space, else the maximum itself
StatedCut(b, lo, max) ==
    IF CutsAfter(b, <<".", " ">>, lo, max) # {} THEN MaxOf(CutsAfter(b, <<".", " ">>, lo, max))
    ELSE IF CutsAfter(b, <<",", " ">>, lo, max) # {} THEN MaxOf(CutsAfter(b, <<",", " ">>, lo, max))
    ELSE IF CutsBeforeSpace(b, lo, max) # {} THEN MaxOf(CutsBeforeSpace(b, lo, max))
    ELSE max

\* the state the last add() left agrees with a cut of ForcedInput at position
\* p: the part before it, trimmed, is the last chunk (unless it is empty), and
\* the rest is the buffer (with its leading whitespace unless the split is hard)
CutAt(p) ==
    /\ buffer = IF p = options.maxChunkSize
                THEN SliceFrom(ForcedInput, p)
                ELSE TrimStart(SliceFrom(ForcedInput, p))
    /\ Trim(Slice(ForcedInput, 0, p)) # <<>> =>
          /\ chunks # <<>>
          /\ chunks[Len(chunks)] = [text |-> Trim(Slice(ForcedInput, 0, p)), kind |-> "forced"]

\* searchStart of forceExtract
SearchStart(opts) ==
    IF opts.maxChunkSize - ForceSearchWindow > 0
    THEN opts.maxChunkSize - ForceSearchWindow ELSE 0

\* C11 Forced split order, as claimed: when the buffer exceeds the maximum the
\* chunker cuts at the last sentence break the first maxChunkSize characters
\* contain, otherwise at their last comma, otherwise at their last space, and
\* only otherwise at the maximum length.
C11_ForcedSplitOrder ==
    Forced => CutAt(StatedCut(ForcedInput, 0, options.maxChunkSize))

\* C11 Forced split order, amended: the break is looked for only in the last
\* ForceSearchWindow characters before the maximum: the last ". " there,
\* otherwise the last ", " there, otherwise the last space there, otherwise a
\* hard split at the maximum length.
C11_ForcedSplitInWindow ==
    Forced => CutAt(StatedCut(ForcedInput, SearchStart(options), options.maxChunkSize))

\* a forced split at a comma inside the window although a sentence break lies before it
C11_Witness ==
    /\ Forced
    /\ CutsAfter(ForcedInput, <<".", " ">>, 0, options.maxChunkSize) # {}
    /\ CutsAfter(ForcedInput, <<".", " ">>, SearchStart(options), options.maxChunkSize) = {}
    /\ CutsAfter(ForcedInput, <<",", " ">>, SearchStart(options), options.maxChunkSize) # {}
    /\ chunks # <<>>
    /\ chunks[Len(chunks)].kind = "forced"

-----------------------------------------------------------------------------
(* Fast layer: the acknowledgment gate, the pattern fallback and the        *)
(* small-model call (fast-layer.ts, in its Ollama and its Haiku build),     *)
(* and the acknowledgment phase of IrisAgent.chat and LocalAgent.chat       *)

VoiceStyleIds == {"normal", "formal", "concise", "immersive", "learning"}

\* getVoiceStyle(id).voiceProperties.thinkingFeedback
thinkingFeedback(style) ==
    CASE style = "formal" -> "none"
      [] style = "learning" -> "verbose"
      [] OTHER -> "minimal"

StartsWith(s, w) == Len(s) >= Len(w) /\ SubSeq(s, 1, Len(w)) = w

Includes(s, w) == IndexOf(s, w) # -1

\* /^(w1|w2|...)/ on s
PrefixOf(s, words) == \E w \in words : StartsWith(s, w)

\* /^(w1|w2|...)[\s!?.]*$/i on s
GreetingOnly(s, words) ==
    \E w \in words :
        /\ StartsWith(ToLowerCase(s), w)
        /\ \A i \in (Len(w) + 1)..Len(s) : IsSpace(s[i]) \/ s[i] \in {"!", "?", "."}

simpleGreetings ==
    {
      <<"h", "i">>, <<"h", "e", "y">>, <<"h", "e", "l", "l", "o">>, <<"y", "o">>,
      <<"s", "u", "p">>, <<"b", "y", "e">>, <<"o", "k">>, <<"o", "k", "a", "y">>,
      <<"y", "e", "s">>, <<"n", "o">>, <<"y", "e", "p">>, <<"n", "o", "p", "e">>,
      <<"s", "u", "r", "e">>, <<"t", "h", "a", "n", "k", "s">>,
      <<"t", "h", "a", "n", "k", " ", "y", "o", "u">> }

\* A gate with the 20-character threshold the code once had.
needsAcknowledgmentLong(msg, style) ==
    /\ thinkingFeedback(style) # "none"
    /\ Len(msg) >= 20
    /\ thinkingFeedback(style) = "verbose" \/ ~GreetingOnly(Trim(msg), simpleGreetings)

needsAcknowledgment(msg, style) ==
    IF thinkingFeedback(style) = "none" THEN FALSE
    ELSE IF Len(msg) < 5 THEN FALSE
    ELSE IF thinkingFeedback(style) = "verbose" THEN TRUE
    ELSE IF GreetingOnly(Trim(msg), simpleGreetings) THEN FALSE
    ELSE TRUE

Ack(text, intent) == [text |-> text, intent |-> intent]

GotItWorking == <<"G", "o", "t", " ", "i", "t", ",", " ", "w", "o", "r", "k", "i", "n", "g", " ", "o", "n", " ", "t", "h", "a", "t", ".">>
GotIt == <<"G", "o", "t", " ", "i", "t", ".">>

\* detectIntent of the Ollama build
detectIntent(msg) ==
    LET lower == Trim(ToLowerCase(msg))
    IN  IF PrefixOf(lower, {
          <<"h", "i">>, <<"h", "e", "y">>, <<"h", "e", "l", "l", "o">>, <<"y", "o">>,
          <<"s", "u", "p">> }) THEN "greeting"
        ELSE IF PrefixOf(lower, {
          <<"w", "h", "a", "t">>, <<"w", "h", "e", "r", "e">>, <<"w", "h", "e", "n">>,
          <<"w", "h", "y">>, <<"w", "h", "o">>, <<"h", "o", "w">>, <<"c", "a", "n">>,
          <<"c", "o", "u", "l", "d">>, <<"w", "o", "u", "l", "d">>, <<"i", "s">>,
          <<"a", "r", "e">>, <<"d", "o">>, <<"d", "o", "e", "s">>, <<"d", "i", "d">> }) THEN "question"
        ELSE IF PrefixOf(lower, {
          <<"c", "h", "e", "c", "k">>, <<"s", "h", "o", "w">>, <<"g", "e", "t">>,
          <<"f", "i", "n", "d">>, <<"t", "e", "l", "l">>, <<"l", "i", "s", "t">>,
          <<"c", "r", "e", "a", "t", "e">>, <<"s", "t", "a", "r", "t">>,
          <<"s", "t", "o", "p">>, <<"e", "n", "a", "b", "l", "e">>,
          <<"d", "i", "s", "a", "b", "l", "e">> }) THEN "command"
        ELSE "unclear"

\* getSimpleFallback of the Ollama build
getSimpleFallback(msg) ==
    LET intent == detectIntent(msg)
        text == CASE intent = "greeting" -> <<"H", "e", "y", " ", "t", "h", "e", "r", "e", "!">>
                  [] intent = "question" -> <<"L", "e", "t", " ", "m", "e", " ", "l", "o", "o", "k", " ", "i", "n", "t", "o", " ", "t", "h", "a", "t", ".">>
                  [] intent = "command" -> <<"O", "n", " ", "i", "t", ".">>
                  [] intent = "statement" -> <<"G", "o", "t", " ", "i", "t", ".">>
                  [] OTHER -> <<"W", "o", "r", "k", "i", "n", "g", " ", "o", "n", " ", "t", "h", "a", "t", ".">>
    IN  Ack(text, intent)

\* the ordered patterns of getQuickFallback in the Haiku build
PatternTable ==
    << [kind |-> "includes",
        words |-> {
          <<"f", "l", "e", "e", "t">>, <<"s", "h", "i", "p">> },
        text |-> <<"C", "h", "e", "c", "k", "i", "n", "g", " ", "y", "o", "u", "r", " ", "f", "l", "e", "e", "t", " ", "s", "t", "a", "t", "u", "s", ".">>,
        intent |-> "command"],
       [kind |-> "includes",
        words |-> {
          <<"w", "a", "l", "l", "e", "t">>, <<"b", "a", "l", "a", "n", "c", "e">>,
          <<"a", "c", "c", "o", "u", "n", "t">> },
        text |-> <<"L", "e", "t", " ", "m", "e", " ", "c", "h", "e", "c", "k", " ", "t", "h", "a", "t", " ", "f", "o", "r", " ", "y", "o", "u", ".">>,
        intent |-> "command"],
       [kind |-> "includes",
        words |-> {
          <<"m", "a", "r", "k", "e", "t">>, <<"p", "r", "i", "c", "e">>,
          <<"t", "r", "a", "d", "e">> },
        text |-> <<"L", "o", "o", "k", "i", "n", "g", " ", "u", "p", " ", "t", "h", "e", " ", "m", "a", "r", "k", "e", "t", " ", "d", "a", "t", "a", ".">>,
        intent |-> "command"],
       [kind |-> "includes",
        words |-> {
          <<"m", "i", "s", "s", "i", "o", "n">>, <<"q", "u", "e", "s", "t">>,
          <<"t", "a", "s", "k">> },
        text |-> <<"L", "e", "t", " ", "m", "e", " ", "c", "h", "e", "c", "k", " ", "o", "n", " ", "t", "h", "a", "t", ".">>,
        intent |-> "command"],
       [kind |-> "prefix",
        words |-> {
          <<"w", "h", "a", "t">>, <<"w", "h", "e", "r", "e">>, <<"w", "h", "e", "n">>,
          <<"w", "h", "y">>, <<"w", "h", "o">>, <<"h", "o", "w">>,
          <<"c", "a", "n", " ", "y", "o", "u">>,
          <<"c", "o", "u", "l", "d", " ", "y", "o", "u">>,
          <<"w", "o", "u", "l", "d", " ", "y", "o", "u">>,
          <<"w", "i", "l", "l", " ", "y", "o", "u">>,
          <<"i", "s", " ", "t", "h", "e", "r", "e">>,
          <<"a", "r", "e", " ", "t", "h", "e", "r", "e">>,
          <<"d", "o", " ", "y", "o", "u">>, <<"d", "o", "e", "s">>, <<"d", "i", "d">> },
        text |-> <<"L", "e", "t", " ", "m", "e", " ", "l", "o", "o", "k", " ", "i", "n", "t", "o", " ", "t", "h", "a", "t", ".">>,
        intent |-> "question"],
       [kind |-> "prefix",
        words |-> {
          <<"t", "e", "l", "l", " ", "m", "e">>, <<"s", "h", "o", "w", " ", "m", "e">>,
          <<"g", "i", "v", "e", " ", "m", "e">>, <<"e", "x", "p", "l", "a", "i", "n">>,
          <<"d", "e", "s", "c", "r", "i", "b", "e">>, <<"f", "i", "n", "d">>,
          <<"s", "e", "a", "r", "c", "h">>, <<"l", "o", "o", "k", " ", "u", "p">>,
          <<"g", "e", "t", " ", "m", "e">>, <<"l", "i", "s", "t">> },
        text |-> <<"S", "u", "r", "e", ",", " ", "o", "n", "e", " ", "m", "o", "m", "e", "n", "t", ".">>,
        intent |-> "command"],
       [kind |-> "includes",
        words |-> {
          <<"h", "e", "l", "p">>, <<"h", "o", "w", " ", "d", "o">>,
          <<"h", "o", "w", " ", "c", "a", "n", " ", "i">> },
        text |-> <<"S", "u", "r", "e", ",", " ", "I", " ", "c", "a", "n", " ", "h", "e", "l", "p", " ", "w", "i", "t", "h", " ", "t", "h", "a", "t", ".">>,
        intent |-> "question"],
       [kind |-> "prefix",
        words |-> {
          <<"d", "o">>, <<"m", "a", "k", "e">>, <<"c", "r", "e", "a", "t", "e">>,
          <<"b", "u", "i", "l", "d">>, <<"s", "t", "a", "r", "t">>, <<"s", "t", "o", "p">>,
          <<"e", "n", "a", "b", "l", "e">>, <<"d", "i", "s", "a", "b", "l", "e">>,
          <<"t", "u", "r", "n">>, <<"s", "e", "t">>, <<"c", "h", "a", "n", "g", "e">>,
          <<"u", "p", "d", "a", "t", "e">> },
        text |-> <<"O", "n", " ", "i", "t", ".">>,
        intent |-> "command"],
       [kind |-> "includes",
        words |-> {
          <<"s", "t", "a", "t", "u", "s">>, <<"u", "p", "d", "a", "t", "e">>,
          <<"p", "r", "o", "g", "r", "e", "s", "s">> },
        text |-> <<"C", "h", "e", "c", "k", "i", "n", "g", " ", "t", "h", "e", " ", "s", "t", "a", "t", "u", "s", " ", "n", "o", "w", ".">>,
        intent |-> "command"] >>

PatternMatches(p, lower) ==
    IF p.kind = "includes" THEN \E w \in p.words : Includes(lower, w)
    ELSE PrefixOf(lower, p.words)

\* getQuickFallback of the Haiku build
getQuickFallbackTable(msg, style) ==
    LET lower == Trim(ToLowerCase(msg))
        hits == {i \in 1..Len(PatternTable) : PatternMatches(PatternTable[i], lower)}
    IN  IF thinkingFeedback(style) = "none" THEN NoAck
        ELSE IF hits # {} THEN Ack(PatternTable[MinOf(hits)].text, PatternTable[MinOf(hits)].intent)
        ELSE IF Len(lower) > 10 THEN Ack(GotItWorking, "unclear")
        ELSE NoAck

\* getQuickFallback of the Ollama build
getQuickFallbackLegacy(msg, style) ==
    IF thinkingFeedback(style) = "none" THEN NoAck ELSE getSimpleFallback(msg)

getQuickFallback(layer, msg, style) ==
    IF layer = "haiku" THEN getQuickFallbackTable(msg, style) ELSE getQuickFallbackLegacy(msg, style)



\* response.response of the small model in the Ollama build
OllamaResponses ==
    {
      <<"C", "h", "e", "c", "k", "i", "n", "g", " ", "y", "o", "u", "r", " ", "f", "l", "e", "e", "t", ".">>,
      <<" ", "O", "n", " ", "i", "t", ".", " ">>, <<>>, <<" ", " ">> }

\* the text blocks of the small model's reply in the Haiku build
HaikuResponses ==
    {
      <<"{", "\"", "t", "e", "x", "t", "\"", ":", "\"", "O", "n", " ", "i", "t", ".", "\"", "}">>,
      <<"{", "\"", "t", "e", "x", "t", "\"", ":", "\"", "\"", "}">>,
      <<"{", "o", "o", "p", "s", "}">>,
      <<"S", "u", "r", "e", " ", "t", "h", "i", "n", "g">>, <<>> }

\* response.match(/\{[\s\S]*\}/): the match, or <<>> for no match
JsonMatch(response) ==
    LET open == IndexOf(response, <<"{">>)
        close == LastIndexOf(response, <<"}">>)
    IN  IF open # -1 /\ close > open THEN Slice(response, open, close + 1) ELSE <<>>

\* JSON.parse on the matches the replies contain
JsonParse(json) ==
    CASE json = <<"{", "\"", "t", "e", "x", "t", "\"", ":", "\"", "O", "n", " ", "i", "t", ".", "\"", "}">> ->
            [ok |-> TRUE, text |-> <<"O", "n", " ", "i", "t", ".">>, intent |-> "undefined"]
      [] json = <<"{", "\"", "t", "e", "x", "t", "\"", ":", "\"", "\"", "}">> ->
            [ok |-> TRUE, text |-> <<>>, intent |-> "undefined"]
      [] OTHER -> [ok |-> FALSE, text |-> <<>>, intent |-> "undefined"]

validateIntent(intent) ==
    IF intent \in {"question", "command", "statement", "greeting", "unclear"} THEN intent ELSE "unclear"

parseAcknowledgmentResponse(response) ==
    LET jsonMatch == JsonMatch(response)
        parsed == JsonParse(jsonMatch)
    IN  IF jsonMatch # <<>> /\ parsed.ok
        THEN Ack(IF parsed.text # <<>> THEN parsed.text ELSE GotIt, validateIntent(parsed.intent))
        ELSE Ack(IF Slice(response, 0, 50) # <<>> THEN Slice(response, 0, 50) ELSE GotIt, "unclear")

\* generateQuickAcknowledgment once the small model has replied
AckOfResponse(layer, msg, response) ==
    IF layer = "haiku" THEN parseAcknowledgmentResponse(response)
    ELSE Ack(IF Trim(response) # <<>> THEN Trim(response) ELSE GotItWorking, detectIntent(msg))

\* the catch block of generateQuickAcknowledgment
AckOfFailure(layer, msg) ==
    IF layer = "haiku" THEN NoAck ELSE getSimpleFallback(msg)

NoCall == [kind |-> "none", text |-> <<>>]

\* the messages explored
Messages ==
    {
      <<"y", "e", "s">>, <<"h", "i">>, <<"h", "e", "l", "l", "o">>,
      <<"H", "e", "l", "l", "o", "!">>, <<"o", "k", "a", "y", ".">>,
      <<" ", " ", "o", "k", " ">>, <<"t", "h", "a", "n", "k", " ", "y", "o", "u">>,
      <<"n", "o", "p", "e", "!">>, <<"y", "o", " ", "d", "u", "d", "e">>,
      <<"g", "o", "o", "d", " ", "d", "a", "y">>,
      <<"c", "h", "e", "c", "k", " ", "m", "y", " ", "f", "l", "e", "e", "t">>,
      <<"w", "h", "a", "t", " ", "i", "s", " ", "u", "p">>,
      <<"s", "h", "o", "w", " ", "m", "e", " ", "m", "o", "r", "e">>,
      <<"s", "t", "o", "p", " ", "i", "t", " ", "n", "o", "w">>,
      <<"h", "m", "m", " ", "i", "n", "t", "e", "r", "e", "s", "t", "i", "n", "g">>,
      <<"h", "e", "l", "p", " ", "m", "e", " ", "o", "u", "t">> }

\* needsAcknowledgment, getQuickFallback and getSimpleFallback tabulated over
\* the explored messages and styles
WantsAck == [msg \in Messages |-> [style \in VoiceStyleIds |-> needsAcknowledgment(msg, style)]]

QuickFallback ==
    [layer \in {"ollama", "haiku"} |->
        [msg \in Messages |-> [style \in VoiceStyleIds |-> getQuickFallback(layer, msg, style)]]]

SimpleFallback == [msg \in Messages |-> getSimpleFallback(msg)]

\* chat(message) is called: a new turn begins at the gate
FastTurn(msg) ==
    /\ userMessage' = msg
    /\ fpc' = "gate"
    /\ acknowledgment' = NoAck
    /\ modelCalls' = 0
    /\ callResult' = NoCall
    /\ ackWanted' = FALSE
    /\ fastTurns' = fastTurns + 1

FastInit ==
    /\ ChunkerOff
    /\ PipelineOff
    /\ MemoryOff
    /\ StyleOff
    /\ ServicesOff
    /\ ToolsOff
    /\ PlayOff
    /\ fastCaller \in {"iris", "local"}
    /\ fastLayer \in {"ollama", "haiku"}
    /\ voiceStyle \in VoiceStyleIds
    /\ userMessage \in Messages
    /\ ollamaAvailable = "null"
    /\ fpc = "gate"
    /\ acknowledgment = NoAck
    /\ modelCalls = 0
    /\ callResult = NoCall
    /\ ackWanted = FALSE
    /\ fastTurns = 1

\* chat(): const wantsAck = needsAcknowledgment(message, voiceStyleId)
FastGate ==
    /\ fpc = "gate"
    /\ ackWanted' = WantsAck[userMessage][voiceStyle]
    /\ fpc' = IF WantsAck[userMessage][voiceStyle] THEN "resolve" ELSE "main"
    /\ UNCHANGED <<fastCaller, fastLayer, userMessage, voiceStyle, ollamaAvailable,
                   acknowledgment, modelCalls, callResult, fastTurns>>
    /\ UNCHANGED <<chunkerVars, pipelineVars, toolVars, playVars, memVars, styleVars, serviceVars>>

\* getAcknowledgment() up to its first await: IrisAgent asks getQuickFallback
\* first, LocalAgent calls generateQuickAcknowledgment at once
FastResolve ==
    /\ fpc = "resolve"
    /\ LET fallback == IF fastCaller = "iris"
                       THEN QuickFallback[fastLayer][userMessage][voiceStyle]
                       ELSE NoAck
       IN  IF fallback # NoAck
           THEN /\ acknowledgment' = fallback
                /\ fpc' = "main"
                /\ UNCHANGED modelCalls
           ELSE IF thinkingFeedback(voiceStyle) = "none"
           THEN /\ acknowledgment' = NoAck
                /\ fpc' = "main"
                /\ UNCHANGED modelCalls
           ELSE IF fastLayer = "ollama" /\ ollamaAvailable = "null"
           THEN /\ fpc' = "probe"
                /\ UNCHANGED <<acknowledgment, modelCalls>>
           ELSE IF fastLayer = "ollama" /\ ollamaAvailable = "false"
           THEN /\ acknowledgment' = SimpleFallback[userMessage]
                /\ fpc' = "main"
                /\ UNCHANGED modelCalls
           ELSE /\ fpc' = "calling"
                /\ modelCalls' = modelCalls + 1
                /\ UNCHANGED acknowledgment
    /\ UNCHANGED <<fastCaller, fastLayer, userMessage, voiceStyle, ollamaAvailable,
                   callResult, ackWanted, fastTurns>>
    /\ UNCHANGED <<chunkerVars, pipelineVars, toolVars, playVars, memVars, styleVars, serviceVars>>

\* isOllamaAvailable() settles (it gives up after one second)
FastProbe ==
    /\ fpc = "probe"
    /\ \E ok \in BOOLEAN :
          IF ok
          THEN /\ ollamaAvailable' = "true"
               /\ fpc' = "calling"
               /\ modelCalls' = modelCalls + 1
               /\ UNCHANGED acknowledgment
          ELSE /\ ollamaAvailable' = "false"
               /\ acknowledgment' = SimpleFallback[userMessage]
               /\ fpc' = "main"
               /\ UNCHANGED modelCalls
    /\ UNCHANGED <<fastCaller, fastLayer, userMessage, voiceStyle, callResult, ackWanted, fastTurns>>
    /\ UNCHANGED <<chunkerVars, pipelineVars, toolVars, playVars, memVars, styleVars, serviceVars>>

\* the small model replies
FastModelReplies ==
    /\ fpc = "calling"
    /\ \E response \in IF fastLayer = "haiku" THEN HaikuResponses ELSE OllamaResponses :
          /\ callResult' = [kind |-> "ok", text |-> response]
          /\ acknowledgment' = AckOfResponse(fastLayer, userMessage, response)
    /\ fpc' = "main"
    /\ UNCHANGED <<fastCaller, fastLayer, userMessage, voiceStyle, ollamaAvailable,
                   modelCalls, ackWanted, fastTurns>>
    /\ UNCHANGED <<chunkerVars, pipelineVars, toolVars, playVars, memVars, styleVars, serviceVars>>

\* the small-model request throws
FastModelFails ==
    /\ fpc = "calling"
    /\ callResult' = [kind |-> "failed", text |-> <<>>]
    /\ acknowledgment' = AckOfFailure(fastLayer, userMessage)
    /\ ollamaAvailable' = IF fastLayer = "ollama" THEN "false" ELSE ollamaAvailable
    /\ fpc' = "main"
    /\ UNCHANGED <<fastCaller, fastLayer, userMessage, voiceStyle, modelCalls, ackWanted, fastTurns>>
    /\ UNCHANGED <<chunkerVars, pipelineVars, toolVars, playVars, memVars, styleVars, serviceVars>>

\* the main-layer request of the turn has been issued; chat() is called again
FastChat ==
    /\ fpc = "main"
    /\ fastTurns < MaxTurns
    /\ \E msg \in Messages : FastTurn(msg)
    /\ UNCHANGED <<fastCaller, fastLayer, voiceStyle, ollamaAvailable>>
    /\ UNCHANGED <<chunkerVars, pipelineVars, toolVars, playVars, memVars, styleVars, serviceVars>>

FastNext ==
    \/ FastGate
    \/ FastResolve
    \/ FastProbe
    \/ FastModelReplies
    \/ FastModelFails
    \/ FastChat

SpecFast == FastInit /\ [][FastNext]_vars

\* the agent's own steps are taken when they can be; the small model owes nothing
SpecFastFair == SpecFast /\ WF_fpc(FastGate \/ FastResolve \/ FastProbe)

\* the greeting words of the stated gate
StatedGreetings ==
    { <<"h", "i">>, <<"h", "e", "y">>, <<"h", "e", "l", "l", "o">>,
      <<"y", "e", "s">>, <<"n", "o">>, <<"o", "k">>, <<"t", "h", "a", "n", "k", "s">>, <<"b", "y", "e">> }

Gated == fpc \notin {"off", "gate"}

\* C12 Acknowledgment gate, as claimed: needsAcknowledgment returns false if and
\* only if the style's feedback setting is "none", or the transcript is shorter
\* than 5 characters, or the transcript consists of one of the words hi, hey,
\* hello, yes, no, ok, thanks, bye followed only by whitespace and "!", "?", ".".
C12_AckGate ==
    Gated =>
        (ackWanted = FALSE <=>
            \/ thinkingFeedback(voiceStyle) = "none"
            \/ Len(userMessage) < 5
            \/ GreetingOnly(Trim(userMessage), StatedGreetings))

\* C12 Acknowledgment gate, amended: the greeting test applies only when the
\* feedback setting is not "verbose", and its words are hi, hey, hello, yo, sup,
\* bye, ok, okay, yes, no, yep, nope, sure, thanks, thank you (matched without
\* regard to case, on the trimmed transcript; the length is that of the
\* untrimmed transcript).
C12_AckGateInCode ==
    Gated =>
        (ackWanted = FALSE <=>
            \/ thinkingFeedback(voiceStyle) = "none"
            \/ Len(userMessage) < 5
            \/ /\ thinkingFeedback(voiceStyle) # "verbose"
               /\ GreetingOnly(Trim(userMessage), simpleGreetings))

\* the gate refused a greeting of five characters or more that the stated
\* word list does not contain
C12_Witness ==
    /\ Gated
    /\ ackWanted = FALSE
    /\ thinkingFeedback(voiceStyle) = "minimal"
    /\ Len(userMessage) >= 5
    /\ ~GreetingOnly(Trim(userMessage), StatedGreetings)

\* what the pattern fallback of the build answers for the message of the turn
PatternAck == getQuickFallback(fastLayer, userMessage, voiceStyle)

\* the acknowledgment phase of a turn that wanted an acknowledgment is over
Resolved == fpc = "main" /\ ackWanted

\* C13 Fast-layer resolution order: the pattern table is tried first and its
\* first match is the acknowledgment; the small model is called when, and only
\* when, no pattern matches.
C13_PatternFirst ==
    Resolved =>
        /\ PatternAck # NoAck => (acknowledgment = PatternAck /\ modelCalls = 0)
        /\ PatternAck = NoAck => modelCalls = 1

\* the small-model request of the turn failed, or its reply holds no JSON
\* object that parses (only the Haiku build parses its reply)
CallFellThrough ==
    \/ callResult.kind = "failed"
    \/ /\ callResult.kind = "ok"
       /\ fastLayer = "haiku"
       /\ JsonMatch(callResult.text) = <<>> \/ ~JsonParse(JsonMatch(callResult.text)).ok

\* C14 Fast-layer fallback: when the small-model call fails or its response
\* cannot be parsed, the acknowledgment of the turn is "Got it, working on that.".
C14_GenericFallback ==
    (fpc = "main" /\ CallFellThrough) => acknowledgment.text = GotItWorking

\* C15 Fast-layer timeout: a small-model call that is pending does not block
\* the turn: the acknowledgment step completes and the main-layer request is
\* issued, whether or not the small model ever responds.
C15_CallBounded == (fpc = "calling") ~> (fpc = "main")

\* positions of the 'done' chunk among the chunks submitted in this call
DoneAt == {i \in 1..Len(pushed) : pushed[i].type = "done"}

\* C16 On main-stream end, as claimed: for every turn whose stream ends, the
\* final assistant text is appended to the conversation history, and the
\* append precedes DONE.
C16_AppendThenDone ==
    ppc = "ended" =>
        /\ assistantLog # <<>>
        /\ DoneAt # {}
        /\ \A i \in DoneAt : assistantLog[1].at < i

\* C16 On main-stream end, amended: for every turn whose stream ends, DONE is
\* emitted; the assistant text is appended to the conversation history exactly
\* when it is not empty, and then the append precedes DONE.
C16_AppendTextThenDone ==
    ppc = "ended" =>
        /\ DoneAt # {}
        /\ responseText(pushed) = <<>> => assistantLog = <<>>
        /\ responseText(pushed) # <<>> =>
              /\ Len(assistantLog) = 1
              /\ assistantLog[1].text = responseText(pushed)
              /\ \A i \in DoneAt : assistantLog[1].at < i

\* a stream that ended with text: appended, then done
C16_Witness ==
    /\ ppc = "ended"
    /\ responseText(pushed) # <<>>
    /\ assistantLog # <<>>
    /\ DoneAt # {}

\* the client handles an ERROR frame
HandlesError == s2c # <<>> /\ Head(s2c).type = "ERROR" /\ ClientReceive

\* the model stream or the steps before it failed in the running chat() call
TurnFailed == chatTurn # 0 /\ ppc \in {"threw", "failed"}

-----------------------------------------------------------------------------
(* Tool calls: the memory tools of the in-process MCP server and            *)
(* handleToolCall of the Star Atlas MCP server                              *)

\* what a tool handler gives back: a text content block, or a rejected promise
TextResult(label) == [kind |-> "text", text |-> label]
Rejected(label) == [kind |-> "rejected", text |-> label]

\* the memory tools of createIrisMcpServer
MemoryTools ==
    {"search_memory", "remember", "add_observation", "create_relation",
     "get_memory_summary", "get_recent_conversation"}

\* the memory tools that test their result for emptiness
EmptyChecked == MemoryTools \ {"remember"}

\* how the memory engine answers the handler's call: a result, an empty
\* result (nothing found, nothing added), or an exception
EngineOutcomes == {"ok", "empty", "throws"}

\* a memory tool handler: it calls the memory engine outside any try block
memoryTool(name, outcome) ==
    IF outcome = "throws" THEN Rejected("exception")
    ELSE IF outcome = "empty" /\ name \in EmptyChecked THEN TextResult("nothing")
    ELSE TextResult("result")

\* toolHandlers of the Star Atlas MCP server
toolHandlers == {"getWalletBalance", "getTransactionHistory", "getFleetStatus"}

\* how a Star Atlas handler ends
HandlerOutcomes == {"ok", "tool_error", "error"}

\* handleToolCall(name, args)
handleToolCall(name, outcome) ==
    IF name \notin toolHandlers THEN Rejected("UNKNOWN_TOOL")
    ELSE IF outcome = "ok" THEN TextResult("result")
    ELSE IF outcome = "tool_error" THEN TextResult("error")
    ELSE Rejected("exception")

ToolsInit ==
    /\ ChunkerOff
    /\ PipelineOff
    /\ MemoryOff
    /\ StyleOff
    /\ ServicesOff
    /\ FastOff
    /\ PlayOff
    /\ toolLog = <<>>

\* the model calls a memory tool
MemoryToolCall ==
    /\ Len(toolLog) < MaxCalls
    /\ \E name \in MemoryTools, outcome \in EngineOutcomes :
          toolLog' = Append(toolLog, [server |-> "iris", tool |-> name, outcome |-> outcome,
                                      result |-> memoryTool(name, outcome)])
    /\ UNCHANGED <<chunkerVars, pipelineVars, fastVars, playVars, memVars, styleVars, serviceVars>>

\* a CallTool request reaches the Star Atlas server
AtlasToolCall ==
    /\ Len(toolLog) < MaxCalls
    /\ \E name \in toolHandlers \cup {"unknown"}, outcome \in HandlerOutcomes :
          toolLog' = Append(toolLog, [server |-> "staratlas", tool |-> name, outcome |-> outcome,
                                      result |-> handleToolCall(name, outcome)])
    /\ UNCHANGED <<chunkerVars, pipelineVars, fastVars, playVars, memVars, styleVars, serviceVars>>

ToolsNext == MemoryToolCall \/ AtlasToolCall

SpecTools == ToolsInit /\ [][ToolsNext]_vars

C20_InterruptResets ==
    [][Escape => (vstate' = "ready" /\ ~capturing' /\ ~playbackContext' /\ scheduled' = <<>>)]_vars

\* what interruptAll() does establish: the playback is stopped, a recording
\* client stops capturing, and only a speaking client returns to 'ready'
InterruptStops ==
    [][Escape => /\ ~playbackContext' /\ scheduled' = <<>>
                 /\ capturing' = (capturing /\ vstate # "recording")
                 /\ vstate' = IF vstate = "speaking" THEN "ready" ELSE "processing"]_vars

\* ---------------------------------------------------------------------------
\* Audio playback of the VoiceClient: playPcmBytes (voice.ts 513-544) and the
\* message handlers that reach it
\* ---------------------------------------------------------------------------

MaxClock == 4       \* wall-clock ticks explored
MaxLog == 4         \* entries of playLog explored
MaxDuration == 2    \* longest audio chunk, in ticks

\* the default of the sampleRate parameter of playRawAudio and playAudioChunk
DefaultSampleRate == 24000

\* message.sampleRate of an audio_chunk message: the default rate or another one
SampleRates == {DefaultSampleRate, DefaultSampleRate \div 2}

Durations == 1..MaxDuration

\* the client after connect(): the socket is open and READY was received
PlayInit ==
    /\ ChunkerOff
    /\ PipelineAtRest
    /\ vstate = "ready"
    /\ ws = "open"
    /\ FastOff
    /\ ToolsOff
    /\ MemoryOff
    /\ StyleOff
    /\ ServicesOff
    /\ PlayOff

\* playPcmBytes(int16Data, sampleRate), for a buffer that lasts d ticks: a
\* context is created when there is none or when its rate differs (the old one
\* is closed, nextPlayTime = 0); the source starts at nextPlayTime, or at
\* currentTime when nextPlayTime lies in the past; nextPlayTime advances by the
\* buffer's duration
playPcmBytes(rate, d) ==
    LET fresh == ~playbackContext \/ sampleRate # rate
        created == IF fresh THEN wallClock ELSE contextStart
        cursor == IF fresh THEN 0 ELSE nextPlayTime
        currentTime == wallClock - created
        startAt == IF cursor < currentTime THEN currentTime ELSE cursor
    IN  /\ playbackContext' = TRUE
        /\ sampleRate' = rate
        /\ contextStart' = created
        /\ nextPlayTime' = startAt + d
        /\ playLog' = Append(playLog, [kind |-> "chunk", arrived |-> wallClock,
                                       at |-> created + startAt,
                                       until |-> created + startAt + d, rate |-> rate])

\* handleMessage / handleBinaryMessage, audio_start: the state only
PlayAudioStart ==
    /\ ws = "open"
    /\ vstate' = "speaking"
    /\ UNCHANGED <<agentVars, apiVars, viewVars, ws, recordings, micPending, capturing,
                   playbackContext, scheduled, pendingSynthesisText, synthLog, interrupted,
                   serverVars, chunkerVars, fastVars, toolVars, memVars, styleVars, serviceVars, playVars>>

\* handleMessage, audio_chunk: playAudioChunk(message.data, message.sampleRate)
PlayAudioChunk ==
    /\ ws = "open"
    /\ Len(playLog) < MaxLog
    /\ \E rate \in SampleRates, d \in Durations : playPcmBytes(rate, d)
    /\ UNCHANGED <<agentVars, apiVars, viewVars, vstate, ws, recordings, micPending, capturing,
                   scheduled, pendingSynthesisText, synthLog, interrupted,
                   serverVars, chunkerVars, fastVars, toolVars, memVars, styleVars, serviceVars, wallClock>>

\* handleBinaryMessage, TTS_AUDIO: playRawAudio(payload), at the default rate
PlayTtsAudio ==
    /\ ws = "open"
    /\ Len(playLog) < MaxLog
    /\ \E d \in Durations : playPcmBytes(DefaultSampleRate, d)
    /\ UNCHANGED <<agentVars, apiVars, viewVars, vstate, ws, recordings, micPending, capturing,
                   scheduled, pendingSynthesisText, synthLog, interrupted,
                   serverVars, chunkerVars, fastVars, toolVars, memVars, styleVars, serviceVars, wallClock>>

\* handleMessage / handleBinaryMessage, audio_end
PlayAudioEnd ==
    /\ ws = "open"
    /\ pendingSynthesisText' = FALSE
    /\ vstate' = "ready"
    /\ UNCHANGED <<agentVars, apiVars, viewVars, ws, recordings, micPending, capturing,
                   playbackContext, scheduled, synthLog, interrupted,
                   serverVars, chunkerVars, fastVars, toolVars, memVars, styleVars, serviceVars, playVars>>

\* stopAudio(): closes the playback context, nextPlayTime = 0, and a speaking
\* client returns to 'ready'
PlayStopAudio ==
    /\ Len(playLog) < MaxLog
    /\ playbackContext' = FALSE
    /\ sampleRate' = 0
    /\ nextPlayTime' = 0
    /\ pendingSynthesisText' = FALSE
    /\ vstate' = stopAudio(vstate)
    /\ playLog' = Append(playLog, [kind |-> "stop"])
    /\ UNCHANGED <<agentVars, apiVars, viewVars, ws, recordings, micPending, capturing,
                   scheduled, synthLog, interrupted,
                   serverVars, chunkerVars, fastVars, toolVars, memVars, styleVars, serviceVars, contextStart, wallClock>>

\* time passes: playbackContext.currentTime advances with the wall clock
PlayTick ==
    /\ wallClock < MaxClock
    /\ wallClock' = wallClock + 1
    /\ UNCHANGED <<chunkerVars, pipelineVars, fastVars, toolVars, memVars, styleVars, serviceVars,
                   nextPlayTime, sampleRate, contextStart, playLog>>

PlayNext ==
    \/ PlayAudioStart
    \/ PlayAudioChunk
    \/ PlayTtsAudio
    \/ PlayAudioEnd
    \/ PlayStopAudio
    \/ PlayTick

SpecPlay == PlayInit /\ [][PlayNext]_vars

\* two chunks received one after the other with no stopAudio() in between
Consecutive(i) ==
    /\ i \in 1..(Len(playLog) - 1)
    /\ playLog[i].kind = "chunk"
    /\ playLog[i + 1].kind = "chunk"

\* C19: received audio chunks are scheduled strictly sequentially in arrival
\* order: each chunk starts no earlier than the end of the chunk scheduled
\* before it, and an audio_start does not reset the schedule cursor.
C19_SequentialPlayback ==
    /\ [](\A i \in 1..(Len(playLog) - 1) : Consecutive(i) => playLog[i + 1].at >= playLog[i].until)
    /\ [][PlayAudioStart => nextPlayTime' = nextPlayTime]_vars

\* what playPcmBytes does establish: a chunk at the rate of the chunk before
\* it starts when that chunk ends, or on arrival when that is later; a chunk
\* at another rate starts on arrival
ScheduledAsCoded ==
    \A i \in 1..(Len(playLog) - 1) :
        Consecutive(i) =>
            playLog[i + 1].at =
                IF playLog[i + 1].rate = playLog[i].rate /\ playLog[i].until > playLog[i + 1].arrived
                THEN playLog[i].until
                ELSE playLog[i + 1].arrived

\* ---------------------------------------------------------------------------
\* The chunk queue of IrisAgent.chat under a long model stream
\* (agent.ts 117-131: chunkQueue, pushChunk)
\* ---------------------------------------------------------------------------

BurstMax == 66      \* messages of the model stream in the long-stream exploration

\* IrisAgent.chat, producer: one text delta of a long model stream
IrisBurst ==
    /\ agentKind = "iris"
    /\ ppc = "stream"
    /\ msgs < BurstMax
    /\ msgs' = msgs + 1
    /\ pushChunk(processMessage("delta_a"))
    /\ UNCHANGED <<agentKind, assistantLog, chatTurn, ppc, pdone, yielded, apiVars, viewVars,
                   clientVars, serverVars, chunkerVars, componentVars>>

\* an IrisAgent serving typed requests
QueueInit ==
    /\ PipelineInit
    /\ agentKind = "iris"

QueueNext ==
    \/ SendTyped
    \/ ChatCall
    \/ IrisAck \/ IrisPrompt \/ IrisBurst
    \/ IrisStreamEnd \/ IrisStreamThrow \/ IrisProducerCatch
    \/ ConsumerWake \/ ConsumerNext
    \/ ChatReturn

SpecQueue == QueueInit /\ [][QueueNext]_vars

\* C21: the queue between a turn's producer and its consumer never holds
\* more than 64 entries, and no chunk is enqueued on a queue that holds 64.
C21_BoundedQueue ==
    /\ [](Len(queue) <= 64)
    /\ [][Len(queue) >= 64 => Len(queue') <= Len(queue)]_vars

\* what pushChunk does establish: every chunk is enqueued at once, whatever
\* the length of the queue
PushNeverWaits ==
    [][IrisBurst => Len(queue') = Len(queue) + 1]_vars

\* ---------------------------------------------------------------------------
\* The memory tools of createIrisMcpServer (mcp-server.ts) and the prompt
\* build of the agents, over the memory engine of one user.  The engine
\* (@iris/memory-service: MemoryManager) is not part of the sources; its
\* operations follow the specification's data model (3, 4.7)
\* ---------------------------------------------------------------------------

MaxVersions == 2    \* summaries generated in the exploration
StaleThreshold == 2 \* mutations and turns after which a summary is stale

\* graph.entities.slice(0, 5)
TopEntities == 5

Names == {"Armada", "armada"}

EntityTypes == {"fleet", "ship"}

ObservationLists == { <<"has 4 ships">>, <<"docked">>, <<"has 4 ships", "docked">> }

Has(g, name) == \E i \in 1..Len(g) : g[i].name = name

\* the facts of fs that are not in obs yet, appended in order
RECURSIVE AddNew(_, _)
AddNew(obs, fs) ==
    IF fs = <<>> THEN obs
    ELSE AddNew(IF \E i \in 1..Len(obs) : obs[i] = Head(fs) THEN obs ELSE Append(obs, Head(fs)),
                Tail(fs))

\* An engine that stores every entity it is given as a new one.
createEntitiesAppend(g, e, isUserEdit) ==
    Append(g, [name |-> e.name, entityType |-> e.entityType,
               observations |-> AddNew(<<>>, e.observations), userEdited |-> isUserEdit])

\* manager.createEntities([e], isUserEdit): creates the entity or upserts the
\* one of that name
createEntities(g, e, isUserEdit) ==
    IF Has(g, e.name)
    THEN [i \in 1..Len(g) |->
            IF g[i].name = e.name
            THEN [g[i] EXCEPT !.entityType = e.entityType,
                              !.observations = AddNew(@, e.observations),
                              !.userEdited = @ \/ isUserEdit]
            ELSE g[i]]
    ELSE Append(g, [name |-> e.name, entityType |-> e.entityType,
                    observations |-> AddNew(<<>>, e.observations), userEdited |-> isUserEdit])

\* manager.addObservations([{entityName, contents}], isUserEdit): the new
\* graph and one result per entity found
addObservations(g, o, isUserEdit) ==
    IF Has(g, o.entityName)
    THEN [graph |-> [i \in 1..Len(g) |->
                        IF g[i].name = o.entityName
                        THEN [g[i] EXCEPT !.observations = AddNew(@, o.contents),
                                          !.userEdited = @ \/ isUserEdit]
                        ELSE g[i]],
          results |-> << [entityName |-> o.entityName] >>]
    ELSE [graph |-> g, results |-> <<>>]

\* manager.isSummaryStale()
isSummaryStale == userEditSince \/ mutationsSince > StaleThreshold

\* the engine records a mutation or a turn: it counts towards the staleness
\* of the summary that exists
recordMutation(isUserEdit) ==
    IF summary.present
    THEN /\ userEditSince' = (userEditSince \/ isUserEdit)
         /\ mutationsSince' = IF mutationsSince > StaleThreshold THEN mutationsSince
                                                               ELSE mutationsSince + 1
    ELSE UNCHANGED <<userEditSince, mutationsSince>>

\* a tool call that asked for a user edit and changed the graph
requestEdit(tool, isUserEdit) ==
    editRequested' = IF isUserEdit /\ summary.present THEN editRequested \cup {tool}
                                                      ELSE editRequested

\* A handler of add_observation that leaves out the isUserEdit argument.
addObservationCallNoFlag(args) ==
    [observation |-> [entityName |-> args.entityName, contents |-> args.facts],
     isUserEdit |-> FALSE]

\* add_observation: manager.addObservations([{ entityName, contents: facts }], isUserEdit)
addObservationCall(args) ==
    [observation |-> [entityName |-> args.entityName, contents |-> args.facts],
     isUserEdit |-> args.isUserEdit]

\* the tool handlers are called for one user; the agents build prompts
MemoryInit ==
    /\ ChunkerOff
    /\ PipelineOff
    /\ FastOff
    /\ ToolsOff
    /\ PlayOff
    /\ StyleOff
    /\ ServicesOff
    /\ MemoryOff

\* tool "remember"
Remember ==
    /\ \E name \in Names, type \in EntityTypes, obs \in ObservationLists, isUserEdit \in BOOLEAN :
          /\ graph' = createEntities(graph, [name |-> name, entityType |-> type,
                                             observations |-> obs], isUserEdit)
          /\ recordMutation(isUserEdit)
          /\ requestEdit("remember", isUserEdit)
          /\ memResult' = [op |-> "remember", name |-> name, n |-> Len(obs)]
    /\ UNCHANGED <<summary, chunkerVars, pipelineVars, fastVars, toolVars, playVars, styleVars, serviceVars>>

\* tool "add_observation"
AddObservation ==
    /\ \E name \in Names, facts \in ObservationLists, isUserEdit \in BOOLEAN :
          \E call \in { addObservationCall([entityName |-> name, facts |-> facts,
                                            isUserEdit |-> isUserEdit]) } :
             \E r \in { addObservations(graph, call.observation, call.isUserEdit) } :
                /\ graph' = r.graph
                /\ IF r.results = <<>>
                   THEN /\ memResult' = [op |-> "add_observation", name |-> name, found |-> FALSE]
                        /\ UNCHANGED <<userEditSince, mutationsSince, editRequested>>
                   ELSE /\ memResult' = [op |-> "add_observation", name |-> name, found |-> TRUE]
                        /\ recordMutation(call.isUserEdit)
                        /\ requestEdit("add_observation", isUserEdit)
    /\ UNCHANGED <<summary, chunkerVars, pipelineVars, fastVars, toolVars, playVars, styleVars, serviceVars>>

\* the listing of the stale branch: the first TopEntities entities
topEntities(g) ==
    [i \in 1..(IF Len(g) < TopEntities THEN Len(g) ELSE TopEntities) |-> g[i].name]

\* tool "get_memory_summary": what its text holds
getMemorySummary ==
    IF graph = <<>>
    THEN [op |-> "get_memory_summary", kind |-> "empty"]
    ELSE IF summary.present /\ ~isSummaryStale
         THEN [op |-> "get_memory_summary", kind |-> "summary", version |-> summary.version]
         ELSE [op |-> "get_memory_summary", kind |-> "listing", top |-> topEntities(graph)]

GetMemorySummary ==
    /\ memResult' = getMemorySummary
    /\ UNCHANGED <<graph, summary, userEditSince, mutationsSince, editRequested,
                   chunkerVars, pipelineVars, fastVars, toolVars, playVars, styleVars, serviceVars>>

\* IrisAgent.buildPromptWithContext / LocalAgent.buildPromptWithContext: what
\* is handed to generateUserContext
buildPromptWithContext ==
    [op |-> "prompt", entities |-> Len(graph),
     summary |-> IF summary.present THEN summary.version ELSE 0]

BuildPrompt ==
    /\ memResult' = buildPromptWithContext
    /\ UNCHANGED <<graph, summary, userEditSince, mutationsSince, editRequested,
                   chunkerVars, pipelineVars, fastVars, toolVars, playVars, styleVars, serviceVars>>

\* addConversationMessage(userId, role, text): a turn is appended
AppendTurn ==
    /\ recordMutation(FALSE)
    /\ memResult' = [op |-> "turn"]
    /\ UNCHANGED <<graph, summary, editRequested,
                   chunkerVars, pipelineVars, fastVars, toolVars, playVars, styleVars, serviceVars>>

\* the engine stores a newly generated summary
GenerateSummary ==
    /\ summary.version < MaxVersions
    /\ graph # <<>>
    /\ summary' = [present |-> TRUE, version |-> summary.version + 1]
    /\ userEditSince' = FALSE
    /\ mutationsSince' = 0
    /\ editRequested' = {}
    /\ memResult' = [op |-> "generate"]
    /\ UNCHANGED <<graph, chunkerVars, pipelineVars, fastVars, toolVars, playVars, styleVars, serviceVars>>

MemoryNext ==
    \/ Remember
    \/ AddObservation
    \/ GetMemorySummary
    \/ BuildPrompt
    \/ AppendTurn
    \/ GenerateSummary

SpecMemory == MemoryInit /\ [][MemoryNext]_vars

\* C22: get_memory_summary returns the stored summary only when it is not
\* stale, and the listing of the top entities when it is stale; and a prompt
\* build hands on the summary only when it is not stale.
C22_SummaryOnlyWhenFresh ==
    [][/\ GetMemorySummary =>
            /\ memResult'.kind = "summary" => (summary.present /\ ~isSummaryStale)
            /\ (graph # <<>> /\ summary.present /\ isSummaryStale) => memResult'.kind = "listing"
       /\ BuildPrompt => (memResult'.summary # 0 => ~isSummaryStale)]_vars

\* what the code does establish: the tool tests the staleness, the prompt
\* build hands on whatever summary is stored
SummaryAsCoded ==
    [][/\ GetMemorySummary =>
            /\ memResult'.kind = "summary" <=> (graph # <<>> /\ summary.present /\ ~isSummaryStale)
            /\ memResult'.kind = "listing" <=> (graph # <<>> /\ ~(summary.present /\ ~isSummaryStale))
       /\ BuildPrompt => memResult'.summary = (IF summary.present THEN summary.version ELSE 0)]_vars

\* C23: when a summary exists and add_observation was called with
\* isUserEdit = true since it was generated, the next get_memory_summary call
\* generates a new summary before it returns, and returns it.
C23_RegeneratesWhenStale ==
    [][(GetMemorySummary /\ summary.present /\ "add_observation" \in editRequested) =>
            /\ summary'.version = summary.version + 1
            /\ memResult'.kind = "summary"]_vars

\* C24: from the moment a tool call asks for a user edit after the summary
\* was generated, isSummaryStale() is true in every state until a new
\* summary is generated, whatever reads, other mutations and turns follow.
C24_StaleUntilRegenerated ==
    (summary.present /\ editRequested # {}) => isSummaryStale

\* a read, a mutation that is no user edit, or a turn came after the user edit
C24_Witness ==
    /\ summary.present
    /\ "add_observation" \in editRequested
    /\ summary.version = MaxVersions
    /\ memResult.op = "get_memory_summary"
    /\ mutationsSince > 1

\* C25: after any sequence of remember calls no two entities of the graph
\* have the same name, and the name just remembered is the name of exactly
\* one entity.
C25_UniqueName ==
    /\ \A i, j \in 1..Len(graph) : graph[i].name = graph[j].name => i = j
    /\ memResult.op = "remember" =>
          Cardinality({ i \in 1..Len(graph) : graph[i].name = memResult.name }) = 1

\* a remember call met an entity of that name, and an entity whose name
\* differs only in case exists beside it
C25_Witness ==
    /\ memResult.op = "remember"
    /\ Len(graph) = 2
    /\ \E i \in 1..Len(graph) :
          /\ graph[i].name = memResult.name
          /\ Len(graph[i].observations) > memResult.n

\* ---------------------------------------------------------------------------
\* Voice style and prosody of the TTS requests: Chat.handleSend
\* (synthesizeChunk), the VoiceClient callbacks set up on the first render,
\* and getVoiceStyleOptions (voice-styles.ts).  Rates and exaggerations are
\* in hundredths
\* ---------------------------------------------------------------------------

MaxStyleTurns == 2  \* voice-mode turns explored
MaxRequests == 3    \* synthesize() calls explored

\* styleProps?.exaggeration ?? 0.5
DefaultExaggeration == 50

\* styleProps?.speechRate ?? 1.0
DefaultSpeechRate == 100

\* voiceStyles: the voiceProperties of each style
voiceStyles ==
    [s \in VoiceStyleIds |->
        CASE s = "normal"    -> [speechRate |-> 100, exaggeration |-> 50]
          [] s = "formal"    -> [speechRate |-> 95,  exaggeration |-> 30]
          [] s = "concise"   -> [speechRate |-> 110, exaggeration |-> 30]
          [] s = "immersive" -> [speechRate |-> 90,  exaggeration |-> 70]
          [] s = "learning"  -> [speechRate |-> 90,  exaggeration |-> 50]]

\* getVoiceStyleOptions(): what /api/styles returns
getVoiceStyleOptions ==
    { [id |-> s, voiceProperties |-> voiceStyles[s]] : s \in VoiceStyleIds }

\* A synthesizeChunk that reads the properties of the style from the table.
synthesizeArgsOfStyle(closure) ==
    [exaggeration |-> voiceStyles[closure.voiceStyle].exaggeration,
     speechRate |-> voiceStyles[closure.voiceStyle].speechRate]

\* handleSend: styleProps = availableStyles.find((s) => s.id === voiceStyle)
\* ?.voiceProperties, and the arguments synthesizeChunk passes to synthesize()
synthesizeArgs(closure) ==
    LET found == { o \in closure.availableStyles : o.id = closure.voiceStyle }
    IN  IF found = {}
        THEN [exaggeration |-> DefaultExaggeration, speechRate |-> DefaultSpeechRate]
        ELSE [exaggeration |-> (CHOOSE o \in found : TRUE).voiceProperties.exaggeration,
              speechRate |-> (CHOOSE o \in found : TRUE).voiceProperties.speechRate]

\* the first render of Chat: voiceStyle is the stored preference,
\* availableStyles is empty, and the VoiceClient created by the mount effect
\* keeps the handleSend of this render
StyleInit ==
    /\ ChunkerOff
    /\ PipelineOff
    /\ FastOff
    /\ ToolsOff
    /\ PlayOff
    /\ MemoryOff
    /\ ServicesOff
    /\ chatVoiceStyle \in VoiceStyleIds
    /\ availableStyles = {}
    /\ firstRender = [voiceStyle |-> chatVoiceStyle, availableStyles |-> {}]
    /\ styleTurn = NoStyleTurn
    /\ styleTurns = 0
    /\ ttsRequests = <<>>

\* getVoiceStyles() resolved: setAvailableStyles
StylesLoaded ==
    /\ availableStyles = {}
    /\ availableStyles' = getVoiceStyleOptions
    /\ UNCHANGED <<chatVoiceStyle, firstRender, styleTurn, styleTurns, ttsRequests,
                   chunkerVars, pipelineVars, fastVars, toolVars, playVars, memVars, serviceVars>>

\* handleStyleChange(styleId)
HandleStyleChange ==
    /\ \E s \in VoiceStyleIds : s # chatVoiceStyle /\ chatVoiceStyle' = s
    /\ UNCHANGED <<availableStyles, firstRender, styleTurn, styleTurns, ttsRequests,
                   chunkerVars, pipelineVars, fastVars, toolVars, playVars, memVars, serviceVars>>

\* onTranscription(text): handleSend(text) of the first render starts a turn
\* in voice mode; streamChat is sent the voiceStyle of that render
VoiceSend ==
    /\ ~styleTurn.active
    /\ styleTurns < MaxStyleTurns
    /\ styleTurns' = styleTurns + 1
    /\ styleTurn' = [active |-> TRUE, sent |-> firstRender.voiceStyle,
                     selected |-> chatVoiceStyle, args |-> synthesizeArgs(firstRender)]
    /\ UNCHANGED <<chatVoiceStyle, availableStyles, firstRender, ttsRequests,
                   chunkerVars, pipelineVars, fastVars, toolVars, playVars, memVars, serviceVars>>

\* synthesizeChunk(chunkText) for the acknowledgment or a chunk of the answer
SynthesizeChunk ==
    /\ styleTurn.active
    /\ Len(ttsRequests) < MaxRequests
    /\ \E kind \in {"acknowledgment", "text"} :
          ttsRequests' = Append(ttsRequests,
             [kind |-> kind, sent |-> styleTurn.sent, selected |-> styleTurn.selected,
              exaggeration |-> styleTurn.args.exaggeration,
              speechRate |-> styleTurn.args.speechRate])
    /\ UNCHANGED <<chatVoiceStyle, availableStyles, firstRender, styleTurn, styleTurns,
                   chunkerVars, pipelineVars, fastVars, toolVars, playVars, memVars, serviceVars>>

\* the response stream of the turn ended
StyleTurnDone ==
    /\ styleTurn.active
    /\ styleTurn' = NoStyleTurn
    /\ UNCHANGED <<chatVoiceStyle, availableStyles, firstRender, styleTurns, ttsRequests,
                   chunkerVars, pipelineVars, fastVars, toolVars, playVars, memVars, serviceVars>>

StyleNext ==
    \/ StylesLoaded
    \/ HandleStyleChange
    \/ VoiceSend
    \/ SynthesizeChunk
    \/ StyleTurnDone

SpecStyle == StyleInit /\ [][StyleNext]_vars

\* C26: every TTS request of a turn, for the acknowledgment and for the
\* chunks of the answer alike, carries the speech rate and the exaggeration
\* of the voice style the turn was sent with.
C26_ProsodyOfStyle ==
    \A i \in 1..Len(ttsRequests) :
        /\ ttsRequests[i].speechRate = voiceStyles[ttsRequests[i].sent].speechRate
        /\ ttsRequests[i].exaggeration = voiceStyles[ttsRequests[i].sent].exaggeration

\* what the code does establish: every request carries the defaults
ProsodyAsCoded ==
    \A i \in 1..Len(ttsRequests) :
        /\ ttsRequests[i].speechRate = DefaultSpeechRate
        /\ ttsRequests[i].exaggeration = DefaultExaggeration

\* ---------------------------------------------------------------------------
\* Paragraph boundaries (text-chunker.ts 182-205)
\* ---------------------------------------------------------------------------

\* position p (0-based) of buf holds a newline that is followed by another
\* newline or by at least two whitespace characters
BoundaryAt(buf, p) ==
    /\ p + 2 <= Len(buf)
    /\ buf[p + 1] = "\n"
    /\ \/ buf[p + 2] = "\n"
       \/ (p + 3 <= Len(buf) /\ IsSpace(buf[p + 2]) /\ IsSpace(buf[p + 3]))

HasBoundary(buf) == \E p \in 0..(Len(buf) - 1) : BoundaryAt(buf, p)

\* the buffer extractChunks() looked at in paragraph mode
ParagraphScan == options.mode = "paragraph" /\ phase = "streaming" /\ adds > 0

\* C27: in paragraph mode a boundary is detected in the buffer exactly when
\* the buffer holds a double newline or a newline followed by at least two
\* spaces; a newline followed by anything else is no boundary.
C27_ParagraphBoundary ==
    ParagraphScan => (extractParagraph(scanned).found <=> HasBoundary(scanned))

\* what extractParagraph does establish: it finds a double newline anywhere,
\* and otherwise looks at the first newline of the buffer only
FirstNewlineOnly ==
    ParagraphScan =>
        (extractParagraph(scanned).found <=>
            \/ IndexOf(scanned, <<"\n", "\n">>) # -1
            \/ (IndexOf(scanned, <<"\n">>) # -1 /\ BoundaryAt(scanned, IndexOf(scanned, <<"\n">>))))

\* ---------------------------------------------------------------------------
\* Producer and consumer of IrisAgent.chat
\* ---------------------------------------------------------------------------

\* C28: whatever the caller has consumed, the producer of a running chat()
\* can take its next step: it fetches the acknowledgment, starts the query
\* once the prompt is ready, reads the stream and finishes without waiting
\* for the consumer.
C28_ProducerIndependent ==
    agentKind = "iris" =>
        /\ ppc = "ack" => ENABLED IrisAck
        /\ ppc = "prompt" => ENABLED IrisPrompt
        /\ (ppc = "stream" /\ msgs < MaxMsgs) => ENABLED IrisMessage
        /\ ppc = "stream" => (ENABLED IrisStreamEnd /\ ENABLED IrisStreamThrow)
        /\ ppc = "rejected" => ENABLED IrisProducerCatch

\* the query runs and has delivered a message while the acknowledgment is
\* still in the queue and the caller has consumed nothing
C28_Witness ==
    /\ agentKind = "iris"
    /\ ppc = "stream"
    /\ msgs > 0
    /\ yielded = <<>>
    /\ queue # <<>>
    /\ Head(queue).type = "acknowledgment"

\* the consumer loop is resumed when its promise resolves, and the agent API
\* keeps asking the generator for the next chunk
SpecTextFair == SpecText /\ WF_vars(ConsumerWake) /\ WF_vars(ConsumerNext)

\* the consumer of IrisAgent.chat sleeps only while the producer is running
\* and the queue is empty, and then a signal() will find its resolver
NoLostWakeup ==
    (agentKind = "iris" /\ cpc = "waiting") => (resolveWaiting /\ ~pdone /\ queue = <<>>)

\* C29: once the producer of a chat() call has finished, however it
\* finished, the consumer yields every chunk that was queued and returns; it
\* never sleeps on an empty queue with the producer done.
C29_ChatTerminates ==
    /\ []NoLostWakeup
    /\ (agentKind = "iris" /\ chatTurn # 0 /\ pdone) ~> (cpc = "returned" /\ yielded = pushed)

\* a call whose producer failed before the stream has returned, after the
\* consumer had gone to sleep and had been woken with the error chunk
C29_Witness ==
    /\ agentKind = "iris"
    /\ ppc = "failed"
    /\ cpc = "returned"
    /\ yielded = pushed
    /\ Len(yielded) = 1

\* ---------------------------------------------------------------------
\* Termination of a recording
\* ---------------------------------------------------------------------

\* the step is a call of stopRecording() from the microphone button or of
\* interruptAll() from the Escape key
StopsRecording == ToggleStop \/ Escape

\* AUDIO_END was sent by the step
SendsAudioEnd == c2s' = c2s \o << Plain("AUDIO_END") >>

\* C30: once AUDIO_START has been sent and the capture runs, a later
\* stopRecording() or interruptAll() sends the matching AUDIO_END and
\* releases the microphone, whatever frames the server sent in between.
C30_RecordingTerminated ==
    [][(StopsRecording /\ capturing) => (SendsAudioEnd /\ ~capturing')]_vars

\* what stopRecording() does establish: the recording is terminated when the
\* client is still in state recording, and left alone in every other state
TerminatedFromRecording ==
    [][(StopsRecording /\ capturing) =>
          IF vstate = "recording"
          THEN SendsAudioEnd /\ ~capturing'
          ELSE c2s' = c2s /\ capturing']_vars

\* ---------------------------------------------------------------------
\* Magic-link verification (auth-service, handlers/verify-magic-link.ts)
\* ---------------------------------------------------------------------

\* what an action of the auth service leaves alone
AuthFrame ==
    UNCHANGED <<chunkerVars, pipelineVars, fastVars, toolVars, playVars, memVars, styleVars,
                historyVars, parserVars>>

\* the handler's return with a status code
Returned(r, code) == [handler EXCEPT ![r].pc = "done", ![r].status = code]

AuthInit ==
    /\ ChunkerOff
    /\ PipelineOff
    /\ FastOff
    /\ ToolsOff
    /\ PlayOff
    /\ MemoryOff
    /\ StyleOff
    /\ ServicesOff

\* verifyMagicLink(event) up to its first await: the body is parsed, a
\* request without a token is refused with 400
AuthRequest(r) ==
    /\ handler[r].pc = "idle"
    /\ \E tok \in TokenIds \cup {"", "bogus"} :
          handler' = IF tok = ""
                     THEN Returned(r, 400)
                     ELSE [handler EXCEPT ![r].pc = "get", ![r].token = tok]
    /\ UNCHANGED <<tokensTable, usersTable, issued>>
    /\ AuthFrame

\* GetCommand on the tokens table and the tests that follow it: 404 for an
\* unknown token, 400 for a used or an expired one
AuthGetToken(r) ==
    /\ handler[r].pc = "get"
    /\ LET tok == handler[r].token
       IN  handler' =
             IF tok \notin TokenIds THEN Returned(r, 404)
             ELSE IF tokensTable[tok].used THEN Returned(r, 400)
             ELSE IF tokensTable[tok].expired THEN Returned(r, 400)
             ELSE [handler EXCEPT ![r].pc = "mark"]
    /\ UNCHANGED <<tokensTable, usersTable, issued>>
    /\ AuthFrame

\* UpdateCommand SET used = true, without a condition
AuthMarkUsed(r) ==
    /\ handler[r].pc = "mark"
    /\ tokensTable' = [tokensTable EXCEPT ![handler[r].token].used = TRUE]
    /\ handler' = [handler EXCEPT ![r].pc = "query"]
    /\ UNCHANGED <<usersTable, issued>>
    /\ AuthFrame

\* the items of the users table with the token's email
UsersOf(email) == {u \in usersTable : u.email = email}

\* QueryCommand on EmailIndex with Limit 1: the handler goes on to create a
\* user when no item came back, and to update the item that came back
AuthQueryUser(r) ==
    /\ handler[r].pc = "query"
    /\ LET found == UsersOf(TokenEmail[handler[r].token])
       IN  IF found = {}
           THEN handler' = [handler EXCEPT ![r].pc = "put"]
           ELSE \E u \in found :
                   handler' = [handler EXCEPT ![r].pc = "update", ![r].userId = u.userId]
    /\ UNCHANGED <<tokensTable, usersTable, issued>>
    /\ AuthFrame

\* the new-user branch: nanoid(), PutCommand without a condition, then the
\* JWT and status 200
AuthPutUser(r) ==
    /\ handler[r].pc = "put"
    /\ issued' = issued + 1
    /\ usersTable' = usersTable \cup
          {[userId |-> issued + 1, email |-> TokenEmail[handler[r].token], logins |-> 1]}
    /\ handler' = [Returned(r, 200) EXCEPT ![r].userId = issued + 1]
    /\ UNCHANGED tokensTable
    /\ AuthFrame

\* the known-user branch: UpdateCommand SET lastLoginAt on the item's key,
\* then the JWT and status 200
AuthUpdateLogin(r) ==
    /\ handler[r].pc = "update"
    /\ usersTable' = {IF u.userId = handler[r].userId
                      THEN [u EXCEPT !.logins = u.logins + 1] ELSE u : u \in usersTable}
    /\ handler' = Returned(r, 200)
    /\ UNCHANGED <<tokensTable, issued>>
    /\ AuthFrame

\* a ddb.send() rejects: the catch block answers 500
AuthFail(r) ==
    /\ handler[r].pc \in {"get", "mark", "query", "put", "update"}
    /\ handler' = Returned(r, 500)
    /\ UNCHANGED <<tokensTable, usersTable, issued>>
    /\ AuthFrame

\* the clock passes the token's expiresAt
TokenExpire(t) ==
    /\ ~tokensTable[t].expired
    /\ tokensTable' = [tokensTable EXCEPT ![t].expired = TRUE]
    /\ UNCHANGED <<usersTable, handler, issued>>
    /\ AuthFrame

AuthNext ==
    \/ \E r \in Handlers :
          \/ AuthRequest(r)
          \/ AuthGetToken(r)
          \/ AuthMarkUsed(r)
          \/ AuthQueryUser(r)
          \/ AuthPutUser(r)
          \/ AuthUpdateLogin(r)
          \/ AuthFail(r)
    \/ \E t \in TokenIds : TokenExpire(t)

SpecAuth == AuthInit /\ [][AuthNext]_vars

\* the invocations that answered 200 for token t
Redeemed(t) == {r \in Handlers : handler[r].status = 200 /\ handler[r].token = t}

\* C31: a magic-link token is redeemed at most once: of the invocations
\* that carry the same token, at most one answers 200 with a JWT.
C31_RedeemedOnce == \A t \in TokenIds : Cardinality(Redeemed(t)) <= 1

\* what the test of the used flag does establish: an invocation that reads
\* the token after it was marked is refused with 400
RefusedOnceMarked ==
    [][\A r \in Handlers :
          (AuthGetToken(r) /\ handler[r].token \in TokenIds /\ tokensTable[handler[r].token].used)
              => handler'[r].status = 400]_vars

\* C37: at most one user item exists per email address, and the
\* invocations that answered 200 for tokens of one address carry the same
\* userId.
C37_OneUserPerEmail ==
    /\ \A u, v \in usersTable : u.email = v.email => u.userId = v.userId
    /\ \A r, q \in Handlers :
          (/\ handler[r].status = 200
           /\ handler[q].status = 200
           /\ TokenEmail[handler[r].token] = TokenEmail[handler[q].token])
              => handler[r].userId = handler[q].userId

\* what the query does establish: an invocation whose query ran after the
\* address's item was put creates no second item
NoSecondUserOnceFound ==
    [][\A r \in Handlers :
          (AuthQueryUser(r) /\ UsersOf(TokenEmail[handler[r].token]) # {})
              => handler'[r].pc = "update"]_vars

\* ---------------------------------------------------------------------
\* Terminal chunks of a chat() stream
\* ---------------------------------------------------------------------

\* the positions of the 'done' and 'error' chunks in a stream
Terminals(cs) == {i \in 1..Len(cs) : cs[i].type \in {"done", "error"}}

\* C32: a finished IrisAgent.chat() stream holds exactly one terminal
\* chunk, 'done' or 'error': never both, never neither, and no 'done' in a
\* stream that holds an 'error'.
C32_OneTerminal ==
    (agentKind = "iris" /\ cpc = "returned") => Cardinality(Terminals(yielded)) = 1

\* what the producer does establish: a finished stream ends with a terminal
\* chunk, holds at most one 'done', and its 'done' is its last chunk
EndsWithTerminal ==
    (agentKind = "iris" /\ cpc = "returned") =>
        /\ yielded # <<>>
        /\ Len(yielded) \in Terminals(yielded)
        /\ \A i \in 1..Len(yielded) : yielded[i].type = "done" => i = Len(yielded)

\* ---------------------------------------------------------------------
\* The server's reply to an utterance
\* ---------------------------------------------------------------------

\* the client handles the frame at the head of the wire, of one of the types
\* ts, while it waits for the reply to its utterance
RepliedWith(ts) ==
    /\ ClientReceive
    /\ vstate = "processing"
    /\ Head(s2c).type \in ts

\* C33: after stopRecording() every reply the protocol permits
\* (TRANSCRIPTION, ERROR, or DONE alone for an empty transcript) takes the
\* client out of 'processing' to 'ready', where it can record again.
C33_ReplyLeadsToReady ==
    [][RepliedWith({"TRANSCRIPTION", "ERROR", "DONE"}) => vstate' = "ready"]_vars

\* what handleBinaryMessage does establish: TRANSCRIPTION and ERROR lead to
\* 'ready', DONE leaves the state as it is
RepliesAsCoded ==
    /\ [][RepliedWith({"TRANSCRIPTION", "ERROR"}) => vstate' = "ready"]_vars
    /\ [][RepliedWith({"DONE"}) => (vstate' = "processing" /\ ~micButtonEnabled')]_vars

\* ---------------------------------------------------------------------
\* Overlapping startRecording() calls
\* ---------------------------------------------------------------------

\* C34: at most one capture session is active per client: when the
\* microphone is granted to a startRecording() call while the capture of an
\* overlapping call already runs, no second AUDIO_START is sent.
C34_SingleCapture ==
    [][(MicGranted /\ capturing) => c2s' = c2s]_vars

\* what startRecording() does establish: every call that passed the entry
\* test in state 'ready' sends its own AUDIO_START once the microphone is
\* granted, whatever the state has become
EveryGrantStarts ==
    [][MicGranted =>
          /\ c2s' = c2s \o << Plain("AUDIO_START") >>
          /\ vstate' = "recording"]_vars

\* ---------------------------------------------------------------------
\* One turn per chat view
\* ---------------------------------------------------------------------

\* a session in which the user types and dictates: the text box, and the
\* microphone button pressed to connect and record and pressed again to stop
DictateNext ==
    \/ TextNext
    \/ ToggleConnect \/ MicGranted \/ ToggleStop \/ ClientReceive
    \/ ServerNext

SpecDictate == PipelineInit /\ [][DictateNext]_vars

\* the turns of the chat view whose handleSend has not reached its finally
Streaming == {t \in Turns : hs[t].active}

\* C35: at most one chat turn is in flight per chat view: a send request
\* made while a response is streaming, typed or triggered by a
\* transcription, is ignored.
C35_OneTurnInFlight ==
    /\ [](Cardinality(Streaming) <= 1)
    /\ [][isStreaming => turn' = turn]_vars

\* what handleSend does establish: a request from the text box is ignored
\* while a response is streaming; only a transcription starts a turn then
TypedIgnoredWhileStreaming ==
    [][(isStreaming /\ turn' # turn) => (ClientReceive /\ Head(s2c).type = "TRANSCRIPTION")]_vars

\* ---------------------------------------------------------------------
\* LocalAgent.conversationHistory over a sequence of chat() calls
\* ---------------------------------------------------------------------

\* what an action on the LocalAgent's history leaves alone
HistoryFrame ==
    UNCHANGED <<chunkerVars, pipelineVars, fastVars, toolVars, playVars, memVars, styleVars,
                authVars, parserVars>>

HistoryInit ==
    /\ ChunkerOff
    /\ PipelineOff
    /\ FastOff
    /\ ToolsOff
    /\ PlayOff
    /\ MemoryOff
    /\ StyleOff
    /\ ServicesOff

\* chat(message) is called and its generator is run by the caller; calls
\* follow one another
HistoryChat ==
    /\ lpc = "idle"
    /\ localCalls < MaxLocalCalls
    /\ localCalls' = localCalls + 1
    /\ lpc' = "prompt"
    /\ localResponse' = FALSE
    /\ chunksRead' = 0
    /\ UNCHANGED conversationHistory
    /\ HistoryFrame

\* the acknowledgment phase and await buildPromptWithContext(): when it
\* resolves the user message is pushed, when it rejects the generator throws
HistoryPrompt ==
    /\ lpc = "prompt"
    /\ \E ok \in BOOLEAN :
          IF ok
          THEN /\ conversationHistory' = Append(conversationHistory, "user")
               /\ lpc' = "stream"
          ELSE /\ lpc' = "idle"
               /\ UNCHANGED conversationHistory
    /\ UNCHANGED <<localResponse, chunksRead, localCalls>>
    /\ HistoryFrame

\* one chunk of the Ollama stream, with or without content
HistoryChunk ==
    /\ lpc = "stream"
    /\ chunksRead < MaxChunks
    /\ chunksRead' = chunksRead + 1
    /\ \E content \in BOOLEAN : localResponse' = (localResponse \/ content)
    /\ UNCHANGED <<conversationHistory, lpc, localCalls>>
    /\ HistoryFrame

\* the stream ends: if (responseText) push the assistant message; 'done'
HistoryStreamEnd ==
    /\ lpc = "stream"
    /\ conversationHistory' = IF localResponse
                              THEN Append(conversationHistory, "assistant")
                              ELSE conversationHistory
    /\ lpc' = "idle"
    /\ UNCHANGED <<localResponse, chunksRead, localCalls>>
    /\ HistoryFrame

\* the stream throws: the catch block yields 'error'
HistoryStreamThrow ==
    /\ lpc = "stream"
    /\ lpc' = "idle"
    /\ UNCHANGED <<conversationHistory, localResponse, chunksRead, localCalls>>
    /\ HistoryFrame

\* clearHistory(), between two calls
HistoryClear ==
    /\ lpc = "idle"
    /\ conversationHistory # <<>>
    /\ conversationHistory' = <<>>
    /\ UNCHANGED <<lpc, localResponse, chunksRead, localCalls>>
    /\ HistoryFrame

HistoryNext ==
    \/ HistoryChat \/ HistoryPrompt \/ HistoryChunk
    \/ HistoryStreamEnd \/ HistoryStreamThrow \/ HistoryClear

SpecHistory == HistoryInit /\ [][HistoryNext]_vars

\* the role a history that alternates from a user message has at position i
RoleAt(i) == IF i % 2 = 1 THEN "user" ELSE "assistant"

\* C36: LocalAgent's conversation history alternates user and assistant
\* messages, starting with a user message, after any sequence of chat()
\* calls, failed and empty ones included.
C36_HistoryAlternates ==
    \A i \in 1..Len(conversationHistory) : conversationHistory[i] = RoleAt(i)

\* what chat() does establish: the history starts with a user message and
\* no two assistant messages follow one another
NoTwoAssistants ==
    /\ conversationHistory # <<>> => conversationHistory[1] = "user"
    /\ \A i \in 1..Len(conversationHistory) - 1 :
          conversationHistory[i] = "assistant" => conversationHistory[i + 1] = "user"

\* ---------------------------------------------------------------------
\* The buffer the chunker retains
\* ---------------------------------------------------------------------

\* C38: after every add() call the buffer the chunker retains is no
\* longer than maxChunkSize, whatever tokens were added.
C38_BufferBounded ==
    (phase = "streaming" /\ adds > 0) => Len(buffer) <= options.maxChunkSize

\* what extractChunks does establish: an add() call never retains more
\* than the buffer it scanned (the old buffer and the token)
RetainedAsCoded ==
    [][Add => Len(buffer') <= Len(scanned')]_vars

\* ---------------------------------------------------------------------
\* The stream parsers: ollamaChatStream (NDJSON) and streamChat (SSE)
\* ---------------------------------------------------------------------

\* what an action of a stream parser leaves alone
ParserFrame ==
    UNCHANGED <<chunkerVars, pipelineVars, fastVars, toolVars, playVars, memVars, styleVars,
                authVars, historyVars>>

\* UTF-8: the ASCII bytes stand for themselves, C3 A9 is the two-byte
\* encoding of e-acute
LeadByte == "C3"

TrailByte == "A9"

Replacement == "FFFD"

\* TextDecoder.decode(value, {stream: true}) on the pending bytes and the
\* new ones: the characters decoded and the bytes of an unfinished
\* sequence, which are held back for the next call
RECURSIVE decode(_)
decode(bs) ==
    IF bs = <<>> THEN [chars |-> <<>>, held |-> <<>>]
    ELSE IF Head(bs) = LeadByte
    THEN IF Len(bs) = 1 THEN [chars |-> <<>>, held |-> bs]
         ELSE IF bs[2] = TrailByte
         THEN LET r == decode(SubSeq(bs, 3, Len(bs)))
              IN  [chars |-> << "e'" >> \o r.chars, held |-> r.held]
         ELSE LET r == decode(Tail(bs))
              IN  [chars |-> << Replacement >> \o r.chars, held |-> r.held]
    ELSE LET r == decode(Tail(bs))
         IN  [chars |-> << IF Head(bs) = TrailByte THEN Replacement ELSE Head(bs) >> \o r.chars,
              held |-> r.held]

\* String.prototype.split("\n")
RECURSIVE Split(_)
Split(s) ==
    LET nl == IndexOf(s, << "\n" >>)
    IN  IF nl = -1 THEN << s >>
        ELSE << Slice(s, 0, nl) >> \o Split(SliceFrom(s, nl + 1))

\* JSON.parse on the texts the bodies contain: the value, or a SyntaxError
JsonText(s) ==
    IF Trim(s) \in { << "{", "a", "}" >>, << "{", "e'", "}" >> }
    THEN [ok |-> TRUE, value |-> Trim(s)]
    ELSE [ok |-> FALSE, value |-> <<>>]

DataPrefix == << "d", "a", "t", "a", ":", " " >>

\* the body of the for loop over the complete lines: what one line yields
parseLine(kind, line) ==
    IF kind = "ndjson"
    THEN IF Trim(line) # <<>> /\ JsonText(line).ok THEN << JsonText(line).value >> ELSE <<>>
    ELSE IF StartsWith(line, DataPrefix) /\ JsonText(SliceFrom(line, Len(DataPrefix))).ok
         THEN << JsonText(SliceFrom(line, Len(DataPrefix))).value >>
         ELSE <<>>

RECURSIVE parseLines(_, _)
parseLines(kind, lines) ==
    IF lines = <<>> THEN <<>>
    ELSE parseLine(kind, Head(lines)) \o parseLines(kind, Tail(lines))

\* A loop body that forgets the incomplete line.
readStepDropsTail(kind, st, value) ==
    LET d == decode(st.held \o value)
        lines == Split(st.buffer \o d.chars)
    IN  [held |-> d.held,
         buffer |-> <<>>,
         events |-> st.events \o parseLines(kind, SubSeq(lines, 1, Len(lines) - 1))]

\* the body of the while loop for one read: decode, split, keep the last
\* piece in the buffer, parse the others
readStep(kind, st, value) ==
    LET d == decode(st.held \o value)
        lines == Split(st.buffer \o d.chars)
    IN  [held |-> d.held,
         buffer |-> lines[Len(lines)],
         events |-> st.events \o parseLines(kind, SubSeq(lines, 1, Len(lines) - 1))]

\* after the loop: ollamaChatStream parses what is left in the buffer,
\* streamChat does not
finish(kind, st) ==
    IF kind = "ndjson" /\ Trim(st.buffer) # <<>> /\ JsonText(st.buffer).ok
    THEN [st EXCEPT !.events = st.events \o << JsonText(st.buffer).value >>]
    ELSE st

\* the lines the explored bodies are made of, as bytes
LineVocabulary ==
    { << "{", "a", "}" >>,
      << "{", LeadByte, TrailByte, "}" >>,
      << "{", "a" >>,
      << " " >>,
      DataPrefix \o << "{", "a", "}" >>,
      DataPrefix \o << "{", LeadByte, TrailByte, "}" >>,
      << ":", "k" >> }

\* the bodies of n lines; the last line is terminated or not
RECURSIVE Bodies(_)
Bodies(n) ==
    IF n = 0 THEN { <<>> }
    ELSE { l \o << "\n" >> \o b : l \in LineVocabulary, b \in Bodies(n - 1) }

ResponseBodies ==
    UNION { Bodies(n) : n \in 1..MaxLines }
      \cup { b \o l : b \in UNION { Bodies(n) : n \in 0..(MaxLines - 1) }, l \in LineVocabulary }

ParserInit ==
    /\ ChunkerOff
    /\ PipelineOff
    /\ FastOff
    /\ ToolsOff
    /\ PlayOff
    /\ MemoryOff
    /\ StyleOff
    /\ AuthOff
    /\ HistoryOff
    /\ parserKind \in {"ndjson", "sse"}
    /\ body \in ResponseBodies
    /\ received = <<>>
    /\ splits = NoSplits
    /\ parser = EmptyParser
    /\ parserDone = FALSE

\* reader.read() returns the next n bytes and the loop body runs
ParserRead ==
    /\ ~parserDone
    /\ \E n \in 1..Len(body) :
          /\ parser' = readStep(parserKind, parser, SubSeq(body, 1, n))
          /\ received' = received \o SubSeq(body, 1, n)
          /\ body' = SubSeq(body, n + 1, Len(body))
          /\ splits' = [line |-> splits.line \/ (n < Len(body) /\ parser'.buffer # <<>>),
                         char |-> splits.char \/ parser'.held # <<>>]
    /\ UNCHANGED <<parserKind, parserDone>>
    /\ ParserFrame

\* reader.read() returns done: the loop ends and the function finishes
ParserEnd ==
    /\ ~parserDone
    /\ body = <<>>
    /\ parser' = finish(parserKind, parser)
    /\ parserDone' = TRUE
    /\ UNCHANGED <<parserKind, body, received, splits>>
    /\ ParserFrame

ParserNext == ParserRead \/ ParserEnd

SpecParser == ParserInit /\ [][ParserNext]_vars

\* the parser's state had the bytes received so far come in one read
InOneRead == readStep(parserKind, EmptyParser, received)

\* the lines of the text received that a parser is to parse: every line
\* that a newline ends, and for ollamaChatStream the text after the last
\* newline as well
LinesParsed ==
    LET all == Split(decode(received).chars)
    IN  IF parserKind = "ndjson" THEN all ELSE SubSeq(all, 1, Len(all) - 1)

\* C39: the events a stream parser produces depend only on the bytes
\* received, not on how they were split across reads: after any reads the
\* parser holds what one read of the same bytes would have left, and at the
\* end it has yielded what one read of the whole body yields: the value of
\* every line, once and in order.
C39_SplitIndependent ==
    /\ ~parserDone => parser = InOneRead
    /\ parserDone => parser = finish(parserKind, InOneRead)
    /\ parserDone => parser.events = parseLines(parserKind, LinesParsed)

\* the end of a read fell inside a line that was yielded, and one between
\* the two bytes of a character
C39_Witness ==
    /\ parserDone
    /\ splits.line
    /\ splits.char
    /\ Len(parser.events) = 2
    /\ parser.events[2] = << "{", "e'", "}" >>

=============================================================================
